---- MODULE Spec2Model ----
(***************************************************************************)
(* A model of arcane's agent orchestration core: the Bubble Tea Update     *)
(* handlers that start and finish a turn (internal/ui/update.go), the      *)
(* SendMessage command with its chat call and its agent loop, the helpers  *)
(* it calls (ParseInlineToolCall, CoerceAgentFinalContent, CompactHistory) *)
(* and the tool dispatcher with its seven primitives (internal/tools).     *)
(*                                                                         *)
(* Text.  A Go string is modelled as a sequence of chunks.  A chunk is a   *)
(* record [s, n]: s is the chunk's characters and n its length in bytes.   *)
(* For an ordinary chunk n = Len(s).  A chunk whose n differs from Len(s)  *)
(* stands for n opaque non-blank characters without a line break (a long   *)
(* output line); s is then only a label.  Blank characters and line breaks *)
(* are always chunks of their own, and two word chunks are never adjacent, *)
(* so that trimming, line splitting and the inline tool call pattern can   *)
(* be computed chunk by chunk.                                             *)
(***************************************************************************)
EXTENDS Integers, Sequences, FiniteSets, TLC

\* ---------------------------------------------------------------- constants
MaxToolIterations == 15
RecentMessagesKeep == 6
CharsPerToken == 4
TruncatedResultSize == 500
DefaultContextTokens == 80000
maxBashOutput == 4000
defaultReadLimit == 200
maxLineWidth == 500
maxGrepHits == 30
maxGrepLineLen == 120
maxHitsPerFile == 5

\* ------------------------------------------------------------------- bounds
\* The choices the world around the program makes in one session.  A key the
\* user presses draws one, and so does a completion the remote model answers
\* as it likes.  The remote model can always answer as it is settled (it
\* repeats its last answer when that asked for at most one tool call, and
\* answers "Done." otherwise), which draws none.
MaxChoices == 4
\* Length of the opaque long line a shell command can print.
LongLine == 20000
\* Tool execution records of a turn handed to CoerceAgentFinalContent.
MaxExecs == 2
\* Messages between the first message and the trailing window of a history
\* handed to CompactHistory.
MaxMiddle == 2
\* Times CompactHistory is applied in a row to one history.
MaxCompactions == 2
\* Lines of a file handed to ToolEdit.
MaxEditLines == 3
\* Lines of the longest file handed to ToolRead.
MaxReadLines == 401
\* Files of a directory handed to ToolGrep.
MaxGrepFiles == 7

\* --------------------------------------------------------------------- text
W(s) == [s |-> s, n |-> Len(s)]

RECURSIVE Txt(_)
Txt(ss) == IF ss = <<>> THEN <<>> ELSE <<W(Head(ss))>> \o Txt(Tail(ss))

Opaque(label, n) == [s |-> label, n |-> n]

NL == W("\n")
SP == W(" ")

IsSpace(c) == c.s \in {" ", "\n", "\t"} /\ c.n = Len(c.s)

RECURSIVE TextLen(_)
TextLen(t) == IF t = <<>> THEN 0 ELSE Head(t).n + TextLen(Tail(t))

RECURSIVE TrimLeft(_)
TrimLeft(t) ==
  IF t # <<>> /\ IsSpace(Head(t)) THEN TrimLeft(Tail(t)) ELSE t

RECURSIVE TrimRight(_)
TrimRight(t) ==
  IF t # <<>> /\ IsSpace(t[Len(t)]) THEN TrimRight(SubSeq(t, 1, Len(t) - 1)) ELSE t

TrimSpace(t) == TrimRight(TrimLeft(t))

\* strings.Contains(t, word) for a word that is one chunk of t
ContainsChunk(t, word) == \E i \in 1..Len(t) : t[i].s = word /\ t[i].n = Len(word)

\* strings.Count(t, "\n")
CountNL(t) == Cardinality({i \in 1..Len(t) : t[i] = NL})

\* t[:k], cutting the chunk that straddles byte k
RECURSIVE Prefix(_, _)
Prefix(t, k) ==
  IF t = <<>> \/ k <= 0 THEN <<>>
  ELSE IF Head(t).n <= k THEN <<Head(t)>> \o Prefix(Tail(t), k - Head(t).n)
  ELSE <<[s |-> Head(t).s, n |-> k]>>

\* strings.Split(t, "\n"): the lines of t, each a text
RECURSIVE SplitLines(_)
SplitLines(t) ==
  LET brk == {i \in 1..Len(t) : t[i] = NL}
  IN IF brk = {} THEN <<t>>
     ELSE LET i == CHOOSE j \in brk : \A l \in brk : j <= l
          IN <<SubSeq(t, 1, i - 1)>> \o SplitLines(SubSeq(t, i + 1, Len(t)))

\* strings.Join(ls, "\n")
RECURSIVE JoinLines(_)
JoinLines(ls) ==
  IF ls = <<>> THEN <<>>
  ELSE IF Len(ls) = 1 THEN ls[1]
  ELSE ls[1] \o <<NL>> \o JoinLines(Tail(ls))

\* the texts of ts one after the other (by halves, as ts may be long)
RECURSIVE Concat(_)
Concat(ts) ==
  IF ts = <<>> THEN <<>>
  ELSE IF Len(ts) = 1 THEN ts[1]
  ELSE Concat(SubSeq(ts, 1, Len(ts) \div 2)) \o Concat(SubSeq(ts, Len(ts) \div 2 + 1, Len(ts)))

RECURSIVE SumSeq(_)
SumSeq(ns) == IF ns = <<>> THEN 0 ELSE Head(ns) + SumSeq(Tail(ns))

\* --------------------------------------------------------------------- JSON
(***************************************************************************)
(* A JSON object is the text "{" member ("," member)* "}" or "{" "}".  A   *)
(* member is one chunk; Members decodes the member chunks the remote model *)
(* is given to use.  Every value is kept as the string the Go type         *)
(* assertion yields (a missing key or a value of another type yields the   *)
(* zero value).                                                            *)
(***************************************************************************)
Members ==
  ("\"path\":\"a.txt\"" :> [k |-> "path", v |-> "a.txt"]) @@
  ("\"path\":\"nosuch\"" :> [k |-> "path", v |-> "nosuch"]) @@
  ("\"content\":\"x\"" :> [k |-> "content", v |-> "x"]) @@
  ("\"old\":\"x\"" :> [k |-> "old", v |-> "x"]) @@
  ("\"new\":\"y\"" :> [k |-> "new", v |-> "y"]) @@
  ("\"pat\":\"[\"" :> [k |-> "pat", v |-> "["]) @@
  ("\"pat\":\"x\"" :> [k |-> "pat", v |-> "x"]) @@
  ("\"pat\":\"*.txt\"" :> [k |-> "pat", v |-> "*.txt"]) @@
  ("\"cmd\":\"false\"" :> [k |-> "cmd", v |-> "false"]) @@
  ("\"cmd\":\"ls nosuch\"" :> [k |-> "cmd", v |-> "ls nosuch"]) @@
  ("\"cmd\":\"./gen\"" :> [k |-> "cmd", v |-> "./gen"]) @@
  ("\"cmd\":\"rm a.txt\"" :> [k |-> "cmd", v |-> "rm a.txt"]) @@
  ("\"cmd\":\"./slow\"" :> [k |-> "cmd", v |-> "./slow"]) @@
  ("\"cmd\":\"sleep 60\"" :> [k |-> "cmd", v |-> "sleep 60"])

IsMember(c) == c.s \in DOMAIN Members /\ c.n = Len(c.s)

\* json.Unmarshal succeeds on text and yields a JSON object; blanks and line
\* breaks between the tokens are skipped
IsJSONObject(text) ==
  LET t == SelectSeq(text, LAMBDA c : ~IsSpace(c))
  IN /\ Len(t) >= 2
     /\ t[1] = W("{")
     /\ t[Len(t)] = W("}")
     /\ (Len(t) = 2 \/ Len(t) % 2 = 1)
     /\ \A i \in 2..(Len(t) - 1) :
          IF i % 2 = 0 THEN IsMember(t[i]) ELSE t[i] = W(",")

\* the decoded object: key -> value (a later member overrides an earlier one)
RECURSIVE DecodeMembers(_, _)
DecodeMembers(t, acc) ==
  IF t = <<>> THEN acc
  ELSE IF IsMember(Head(t))
       THEN DecodeMembers(Tail(t),
              (Members[Head(t).s].k :> Members[Head(t).s].v) @@ acc)
       ELSE DecodeMembers(Tail(t), acc)

EmptyMap == [x \in {} |-> ""]

JSONObject(t) == DecodeMembers(t, EmptyMap)

\* args[key].(string) with the comma-ok form: "" when absent
Str(args, key) == IF key \in DOMAIN args THEN args[key] ELSE ""

\* args[key].(float64) / .(bool) with the comma-ok form: the zero value when
\* absent.  The keys offset and limit carry numbers and the key all a boolean
\* wherever they are present.
Num(args, key) == IF key \in DOMAIN args THEN args[key] ELSE 0

Flag(args, key) == IF key \in DOMAIN args THEN args[key] ELSE FALSE

\* ------------------------------------------------------- tool-call interpreter
KnownToolNames == {"ls", "read", "write", "edit", "glob", "grep", "bash"}

\* a fallback that accepts any identifier as a tool name
IsKnownToolName_Any(name) == TRUE

IsKnownToolName(name) == name \in KnownToolNames

\* the words of the menu that match [a-zA-Z][a-zA-Z0-9_]*
Identifiers == KnownToolNames \cup {"rm", "frob", "Done"}

IsIdentifier(c) == c.s \in Identifiers /\ c.n = Len(c.s)

\* InlineToolCallRE: ^\s*([a-zA-Z][a-zA-Z0-9_]*)\s*(\{.*\})\s*$  on a trimmed
\* text; "." does not match a line break.  The result is the pair of groups.
InlineMatch(t) ==
  IF t = <<>> \/ ~IsIdentifier(t[1]) THEN [ok |-> FALSE, name |-> "", rest |-> <<>>]
  ELSE LET rest == TrimLeft(Tail(t))
       IN IF /\ Len(rest) >= 2
             /\ rest[1] = W("{")
             /\ rest[Len(rest)] = W("}")
             /\ \A i \in 1..Len(rest) : rest[i] # NL
          THEN [ok |-> TRUE, name |-> t[1].s, rest |-> rest]
          ELSE [ok |-> FALSE, name |-> "", rest |-> <<>>]

NoInline == [name |-> "", argsJSON |-> <<>>, ok |-> FALSE]

ParseInlineToolCall(content) ==
  LET c == TrimSpace(content)
      m == InlineMatch(c)
  IN IF c = <<>> THEN NoInline
     ELSE IF ~m.ok THEN NoInline
     ELSE IF ~IsKnownToolName(m.name) THEN NoInline
     ELSE IF ~IsJSONObject(TrimSpace(m.rest)) THEN NoInline
     ELSE [name |-> m.name, argsJSON |-> TrimSpace(m.rest), ok |-> TRUE]

\* ------------------------------------------------------ tool execution sandbox
(***************************************************************************)
(* The working directory is fs: path -> the file's lines, one chunk each   *)
(* (the file's bytes are its lines joined by line breaks).  A primitive    *)
(* returns [res, isErr, errText, fs]: Go's (string, error) and the         *)
(* directory it leaves behind.                                             *)
(***************************************************************************)
\* the names a directory can hold, in the order os.ReadDir and filepath.Walk
\* visit them
PathOrder == <<"a.txt">> \o [i \in 1..MaxGrepFiles |-> "b" \o ToString(i) \o ".txt"]

Ok(text, fs) == [res |-> text, isErr |-> FALSE, errText |-> <<>>, fs |-> fs]

Fail(text, fs) == [res |-> <<>>, isErr |-> TRUE, errText |-> text, fs |-> fs]

\* a run-time panic in a primitive: nothing is returned, the goroutine unwinds
Panicked(text, fs) ==
  [res |-> <<>>, isErr |-> TRUE, errText |-> text, fs |-> fs, panic |-> TRUE]

Crashed(r) == "panic" \in DOMAIN r

SliceBounds == <<W("panic: runtime error: slice bounds out of range")>>

NoSuchFile(op, path) == <<W(op), SP, W(path \o ":"), SP, W("no such file or directory")>>

ErrorPrefix == <<W("error:"), SP>>

\* the existing paths in directory order
ExistingPaths(fs) ==
  LET RECURSIVE keep(_)
      keep(ps) == IF ps = <<>> THEN <<>>
                  ELSE IF Head(ps) \in DOMAIN fs THEN <<Head(ps)>> \o keep(Tail(ps))
                  ELSE keep(Tail(ps))
  IN keep(PathOrder)

\* "%4d" of fmt.Sprintf
Pad4(i) ==
  (IF i < 10 THEN <<SP, SP, SP>> ELSE IF i < 100 THEN <<SP, SP>>
   ELSE IF i < 1000 THEN <<SP>> ELSE <<>>) \o <<W(ToString(i))>>

\* a hint that sends the reader one line too far
ReadHint_SkipsALine(remaining, end) ==
  <<NL, W("[... "), W(ToString(remaining)), W(" more lines. Use offset="),
    W(ToString(end + 1)), W(" to continue reading]"), NL>>

\* "\n[... %d more lines. Use offset=%d to continue reading]\n"
ReadHint(remaining, end) ==
  <<NL, W("[... "), W(ToString(remaining)), W(" more lines. Use offset="),
    W(ToString(end)), W(" to continue reading]"), NL>>

ToolRead(args, fs) ==
  LET path == Str(args, "path")
      offset == Num(args, "offset")
      limit0 == Num(args, "limit")
  IN IF path \notin DOMAIN fs THEN Fail(NoSuchFile("open", path), fs)
     ELSE
       LET lines == fs[path]
           totalLines == Len(lines)
           start0 == IF offset < 0 THEN 0 ELSE offset
           start == IF start0 > Len(lines) THEN Len(lines) ELSE start0
           limit == IF limit0 = 0 THEN defaultReadLimit ELSE limit0
           end0 == start + limit
           end == IF end0 > Len(lines) THEN Len(lines) ELSE end0
           selected == SubSeq(lines, start + 1, end)
           render(i) ==
             Pad4(start + i) \o <<W("|"), SP>>
             \o (IF selected[i].n > maxLineWidth
                 THEN <<[s |-> selected[i].s, n |-> maxLineWidth], W("...")>>
                 ELSE <<selected[i]>>)
             \o <<NL>>
           remaining == totalLines - end
       IN IF start > end THEN Panicked(SliceBounds, fs)
          ELSE
          Ok(Concat([i \in 1..Len(selected) |-> render(i)]) \o
             (IF remaining > 0 THEN ReadHint(remaining, end) ELSE <<>>), fs)

ToolWrite(args, fs) ==
  LET path == Str(args, "path")
      content == Str(args, "content")
  IN IF path = "" THEN Fail(NoSuchFile("open", path), fs)
     ELSE Ok(<<W("ok")>>, (path :> <<W(content)>>) @@ fs)

\* strings.Count(text, old) for an old that is a whole line of the file
CountOld(lines, old) ==
  IF old = "" THEN TextLen(lines) + (Len(lines) - 1) + 1
  ELSE Cardinality({i \in 1..Len(lines) : lines[i] = W(old)})

\* strings.ReplaceAll / strings.Replace(text, old, new, 1).  An empty old
\* matches before every character and at the end of the text (the lines of
\* the menu hold one character at most); new holds no line break.
ReplaceOld(lines, old, new, all) ==
  IF old = ""
  THEN [i \in 1..Len(lines) |->
          IF all THEN W(new \o (IF lines[i].s = "" THEN "" ELSE lines[i].s \o new))
          ELSE IF i = 1 THEN W(new \o lines[i].s)
          ELSE lines[i]]
  ELSE LET first == CHOOSE i \in 1..Len(lines) :
                      lines[i] = W(old) /\ \A j \in 1..(i - 1) : lines[j] # W(old)
       IN [i \in 1..Len(lines) |->
             IF lines[i] = W(old) /\ (all \/ i = first) THEN W(new) ELSE lines[i]]

\* an edit that replaces the first occurrence without asking whether it is
\* the only one
ToolEdit_FirstOfMany(args, fs) ==
  LET path == Str(args, "path")
      oldStr == Str(args, "old")
      newStr == Str(args, "new")
      all == Flag(args, "all")
  IN IF path \notin DOMAIN fs THEN Fail(NoSuchFile("open", path), fs)
     ELSE IF CountOld(fs[path], oldStr) = 0
     THEN Ok(ErrorPrefix \o <<W("old_string not found")>>, fs)
     ELSE Ok(<<W("ok")>>, [fs EXCEPT ![path] = ReplaceOld(fs[path], oldStr, newStr, all)])

ToolEdit(args, fs) ==
  LET path == Str(args, "path")
      oldStr == Str(args, "old")
      newStr == Str(args, "new")
      all == Flag(args, "all")
  IN IF path \notin DOMAIN fs THEN Fail(NoSuchFile("open", path), fs)
     ELSE
       LET text == fs[path]
           count == CountOld(text, oldStr)
       IN IF count = 0
          THEN Ok(ErrorPrefix \o <<W("old_string not found")>>, fs)
          ELSE IF ~all /\ count > 1
          THEN Ok(ErrorPrefix \o <<W("old_string appears " \o ToString(count)
                                      \o " times, must be unique (use all=true)")>>, fs)
          ELSE Ok(<<W("ok")>>, [fs EXCEPT ![path] = ReplaceOld(text, oldStr, newStr, all)])

\* filepath.Glob: the patterns of the menu
BadPattern(pat) == pat = "["

GlobMatch(pat, p) == pat = "*.txt" \/ pat = p

ToolGlob(args, fs) ==
  LET pat == Str(args, "pat")
      root == IF Str(args, "path") = "" THEN "." ELSE Str(args, "path")
      paths == ExistingPaths(fs)
      RECURSIVE pick(_)
      pick(ps) == IF ps = <<>> THEN <<>>
                  ELSE IF GlobMatch(pat, Head(ps)) THEN <<<<W(Head(ps))>>>> \o pick(Tail(ps))
                  ELSE pick(Tail(ps))
      result == IF root # "." THEN <<>>
                ELSE IF pat = "" THEN <<<<W(".")>>>>
                ELSE pick(paths)
  IN IF BadPattern(pat) THEN Fail(<<W("syntax error in pattern")>>, fs)
     ELSE IF result = <<>> THEN Ok(<<W("none")>>, fs)
     ELSE Ok(JoinLines(result), fs)

\* regexp.Compile and MatchString: the patterns of the menu
BadRegexp(pat) == pat = "["

MatchString(pat, line) == pat = "" \/ line.s = pat

\* the Walk callback on one file: [hits, skippedFiles, eof]
GrepFile(pat, path, lines, st) ==
  LET RECURSIVE scan(_, _, _)
      scan(i, fileHits, acc) ==
        IF i > Len(lines) THEN acc
        ELSE IF ~MatchString(pat, lines[i]) THEN scan(i + 1, fileHits, acc)
        ELSE
          LET matchLine ==
                IF lines[i].n > maxGrepLineLen
                THEN <<[s |-> lines[i].s, n |-> maxGrepLineLen], W("...")>>
                ELSE <<lines[i]>>
              hit == <<W(path \o ":" \o ToString(i) \o ":")>> \o matchLine
              hits == Append(acc.hits, hit)
          IN IF fileHits + 1 >= maxHitsPerFile
             THEN [acc EXCEPT !.hits = hits, !.skippedFiles = @ + 1]
             ELSE IF Len(hits) >= maxGrepHits
             THEN [acc EXCEPT !.hits = hits, !.eof = TRUE]
             ELSE scan(i + 1, fileHits + 1, [acc EXCEPT !.hits = hits])
  IN scan(1, 0, st)

ToolGrep(args, fs) ==
  LET pat == Str(args, "pat")
      root == IF Str(args, "path") = "" THEN "." ELSE Str(args, "path")
      RECURSIVE walk(_, _)
      walk(ps, st) ==
        IF ps = <<>> \/ st.eof THEN st
        ELSE IF root # "." /\ root # Head(ps) THEN walk(Tail(ps), st)
        ELSE walk(Tail(ps), GrepFile(pat, Head(ps), fs[Head(ps)], st))
      st == walk(ExistingPaths(fs), [hits |-> <<>>, skippedFiles |-> 0, eof |-> FALSE])
  IN IF BadRegexp(pat)
     THEN Fail(<<W("error parsing regexp: missing closing ]: " \o pat)>>, fs)
     ELSE IF st.hits = <<>> THEN Ok(<<W("none")>>, fs)
     ELSE Ok(JoinLines(st.hits) \o
             (IF Len(st.hits) >= maxGrepHits \/ st.skippedFiles > 0
              THEN <<NL, W("[Results limited. Use a more specific pattern or path to narrow search]")>>
              ELSE <<>>), fs)

(***************************************************************************)
(* sh -c cmd on the directory fs: the combined output, whether the exit    *)
(* status is non-zero (err is then what exec's error prints) and the       *)
(* directory afterwards.  "./gen" prints 21 long lines, "./one" one long    *)
(* line, "./many" 40 lines of 150 characters, "./few" 21 short lines and   *)
(* "echo" an empty line.  "sleep 60" and "./slow" are still running when   *)
(* the 30 seconds of the context are over and are killed, the first having *)
(* printed nothing and the second one line: err is then "signal: killed".  *)
(***************************************************************************)
GenLines == [i \in 1..21 |-> <<Opaque("line", LongLine)>>]

Killed == "signal: killed"

ShellRun(cmd, fs) ==
  CASE cmd = "" -> [out |-> <<>>, err |-> "", fs |-> fs]
    [] cmd = "false" -> [out |-> <<>>, err |-> "exit status 1", fs |-> fs]
    [] cmd = "ls nosuch" ->
         [out |-> <<W("ls:"), SP, W("nosuch:"), SP, W("No such file or directory"), NL>>,
          err |-> "exit status 2", fs |-> fs]
    [] cmd = "./gen" -> [out |-> JoinLines(GenLines) \o <<NL>>, err |-> "", fs |-> fs]
    [] cmd = "./one" -> [out |-> <<Opaque("line", LongLine), NL>>, err |-> "", fs |-> fs]
    [] cmd = "./many" ->
         [out |-> JoinLines([i \in 1..40 |-> <<Opaque("row", 150)>>]) \o <<NL>>,
          err |-> "", fs |-> fs]
    [] cmd = "./few" ->
         [out |-> JoinLines([i \in 1..21 |-> <<W("row")>>]) \o <<NL>>, err |-> "", fs |-> fs]
    [] cmd = "echo" -> [out |-> <<NL>>, err |-> "", fs |-> fs]
    [] cmd = "sleep 60" -> [out |-> <<>>, err |-> Killed, fs |-> fs]
    [] cmd = "./slow" -> [out |-> <<W("partial"), NL>>, err |-> Killed, fs |-> fs]
    [] cmd = "rm a.txt" ->
         IF "a.txt" \in DOMAIN fs
         THEN [out |-> <<>>, err |-> "",
               fs |-> [p \in DOMAIN fs \ {"a.txt"} |-> fs[p]]]
         ELSE [out |-> <<W("rm:"), SP, W("a.txt:"), SP, W("No such file or directory"), NL>>,
               err |-> "exit status 1", fs |-> fs]
    [] OTHER -> [out |-> <<W("sh:"), SP, W("command not found"), NL>>,
                 err |-> "exit status 127", fs |-> fs]

\* a shell tool that reports the error of a command that failed, whatever it
\* printed
ToolBash_DropsOutput(args, fs) ==
  LET run == ShellRun(Str(args, "cmd"), fs)
      result == TrimSpace(run.out)
  IN IF run.err # "" THEN Ok(ErrorPrefix \o <<W(run.err)>>, run.fs)
     ELSE IF result = <<>> THEN Ok(<<W("(empty)")>>, run.fs)
     ELSE Ok(result, run.fs)

ToolBash(args, fs) ==
  LET cmdStr == Str(args, "cmd")
      run == ShellRun(cmdStr, fs)
      result == TrimSpace(run.out)
      lines == SplitLines(result)
      truncated == Len(lines) - 20
  IN IF result = <<>>
     THEN IF run.err # ""
          THEN Ok(ErrorPrefix \o <<W(run.err)>>, run.fs)
          ELSE Ok(<<W("(empty)")>>, run.fs)
     ELSE IF TextLen(result) > maxBashOutput
     THEN IF Len(lines) > 20
          THEN Ok(JoinLines(SubSeq(lines, 1, 10))
                  \o <<NL, NL, W("[... " \o ToString(truncated) \o " lines truncated ...]"), NL, NL>>
                  \o JoinLines(SubSeq(lines, Len(lines) - 9, Len(lines))), run.fs)
          ELSE Ok(Prefix(result, maxBashOutput) \o <<NL, W("[... output truncated]")>>, run.fs)
     ELSE Ok(result, run.fs)

\* a listing that is blank for a directory without entries
ToolLs_NoSentinel(args, fs) ==
  LET path == IF Str(args, "path") = "" THEN "." ELSE Str(args, "path")
      entries == ExistingPaths(fs)
  IN IF path # "." THEN Fail(NoSuchFile("open", path), fs)
     ELSE Ok(Concat([i \in 1..Len(entries) |-> <<W("[FILE]"), SP, W(entries[i]), NL>>]), fs)

ToolLs(args, fs) ==
  LET path == IF Str(args, "path") = "" THEN "." ELSE Str(args, "path")
      entries == ExistingPaths(fs)
      RECURSIVE list(_)
      list(es) == IF es = <<>> THEN <<>>
                  ELSE <<W("[FILE]"), SP, W(Head(es)), NL>> \o list(Tail(es))
      result == list(entries)
  IN IF path # "." THEN Fail(NoSuchFile("open", path), fs)
     ELSE IF result = <<>> THEN Ok(<<W("(empty directory)")>>, fs)
     ELSE Ok(result, fs)

\* a dispatcher that ignores a failed json.Unmarshal and runs on an empty map
ExecuteTool_SkipsArgsCheck(name, argsJSON, fs) ==
  LET args == IF IsJSONObject(argsJSON) THEN JSONObject(argsJSON) ELSE EmptyMap
  IN CASE name = "read" -> [r |-> ToolRead(args, fs), primitive |-> name]
       [] name = "write" -> [r |-> ToolWrite(args, fs), primitive |-> name]
       [] name = "edit" -> [r |-> ToolEdit(args, fs), primitive |-> name]
       [] name = "glob" -> [r |-> ToolGlob(args, fs), primitive |-> name]
       [] name = "grep" -> [r |-> ToolGrep(args, fs), primitive |-> name]
       [] name = "bash" -> [r |-> ToolBash(args, fs), primitive |-> name]
       [] name = "ls" -> [r |-> ToolLs(args, fs), primitive |-> name]
       [] OTHER -> [r |-> Fail(<<W("unknown tool:"), SP, W(name)>>, fs), primitive |-> ""]

\* primitive is the primitive that ran, "" when none did
ExecuteTool(name, argsJSON, fs) ==
  IF ~IsJSONObject(argsJSON)
  THEN [r |-> Fail(<<W("unexpected end of JSON input")>>, fs), primitive |-> ""]
  ELSE LET args == JSONObject(argsJSON)
       IN CASE name = "read" -> [r |-> ToolRead(args, fs), primitive |-> name]
            [] name = "write" -> [r |-> ToolWrite(args, fs), primitive |-> name]
            [] name = "edit" -> [r |-> ToolEdit(args, fs), primitive |-> name]
            [] name = "glob" -> [r |-> ToolGlob(args, fs), primitive |-> name]
            [] name = "grep" -> [r |-> ToolGrep(args, fs), primitive |-> name]
            [] name = "bash" -> [r |-> ToolBash(args, fs), primitive |-> name]
            [] name = "ls" -> [r |-> ToolLs(args, fs), primitive |-> name]
            [] OTHER -> [r |-> Fail(<<W("unknown tool:"), SP, W(name)>>, fs), primitive |-> ""]

\* strings.ToUpper of the tool names of the menu that are not known tools
Upper(name) == IF name = "frob" THEN "FROB" ELSE name

\* filepath.Base of the paths of the menu
Base(path) == IF path = "" THEN "." ELSE path

\* the %d of a summary
Count(result, none) ==
  IF result = none THEN 0
  ELSE IF CountNL(result) = 0 /\ result # <<>> THEN 1
  ELSE CountNL(result)

\* the switch of GenerateToolSummary on the unmarshalled arguments
Summary(name, args, result) ==
  LET cmd == Str(args, "cmd")
  IN CASE name = "read" ->
            LET lines == IF CountNL(result) = 0 /\ result # <<>> THEN 1 ELSE CountNL(result)
            IN "READ " \o Base(Str(args, "path")) \o " (" \o ToString(lines) \o " lines)"
       [] name = "write" ->
            "WRITE " \o Base(Str(args, "path")) \o " (1 lines)"
       [] name = "edit" ->
            IF \E i \in 1..Len(result) : result[i] = W("error:")
            THEN "EDIT " \o Base(Str(args, "path")) \o " (failed)"
            ELSE "EDIT " \o Base(Str(args, "path"))
       [] name = "glob" ->
            "GLOB " \o Str(args, "pat") \o " (" \o ToString(Count(result, <<W("none")>>)) \o " files)"
       [] name = "grep" ->
            "GREP \"" \o Str(args, "pat") \o "\" (" \o ToString(Count(result, <<W("none")>>)) \o " matches)"
       [] name = "bash" -> "BASH " \o cmd
       [] name = "ls" ->
            LET entries == IF result = <<W("(empty directory)")>> THEN 0 ELSE CountNL(result)
            IN "LS " \o (IF Str(args, "path") = "" THEN "." ELSE Str(args, "path"))
               \o " (" \o ToString(entries) \o " entries)"
       [] OTHER -> Upper(name) \o " called"

GenerateToolSummary(name, argsJSON, result) ==
  Summary(name, IF IsJSONObject(argsJSON) THEN JSONObject(argsJSON) ELSE EmptyMap, result)

\* ------------------------------------------------------------------ messages
(***************************************************************************)
(* A chat message of the completion protocol.  tool_call_id is 0 when the  *)
(* message answers no tool call; tool_calls are records [id, name,         *)
(* arguments].  ToolMessage takes the call id first, as its call sites in  *)
(* SendMessage and CompactHistory pass it.                                 *)
(***************************************************************************)
SystemMessage(c) == [role |-> "system", content |-> c, tool_call_id |-> 0, tool_calls |-> <<>>]

UserMessage(c) == [role |-> "user", content |-> c, tool_call_id |-> 0, tool_calls |-> <<>>]

AssistantMessage(c) == [role |-> "assistant", content |-> c, tool_call_id |-> 0, tool_calls |-> <<>>]

ToolMessage(id, c) == [role |-> "tool", content |-> c, tool_call_id |-> id, tool_calls |-> <<>>]

\* Message.ToParam() of a response's message
ToParam(msg) == [role |-> "assistant", content |-> msg.content, tool_call_id |-> 0,
                 tool_calls |-> msg.tool_calls]

\* len(json.Marshal(msg)): the keys and quotes of the message's JSON, its
\* content with each line break escaped to two bytes, and its tool calls
JSONLen(msg) ==
  LET call(tc) == 70 + Len(tc.name) + TextLen(tc.arguments)
      calls == SumSeq([i \in 1..Len(msg.tool_calls) |-> call(msg.tool_calls[i])])
  IN 30 + TextLen(msg.content) + CountNL(msg.content)
     + (IF msg.role = "tool" THEN 26 ELSE 0)
     + (IF msg.tool_calls # <<>> THEN 16 + calls ELSE 0)

\* ------------------------------------------------------------ context compactor
EstimateTokens(n) == n \div CharsPerToken

EstimateMessageTokens(msg) == EstimateTokens(JSONLen(msg))

EstimateHistoryTokens(history) ==
  SumSeq([i \in 1..Len(history) |-> EstimateMessageTokens(history[i])])

TruncateToolResult(toolName, result) ==
  LET lineCount == Len(SplitLines(result))
      preview == IF TextLen(result) > TruncatedResultSize
                 THEN Prefix(result, TruncatedResultSize) ELSE result
  IN IF TextLen(result) <= TruncatedResultSize THEN result
     ELSE <<W("[" \o toolName \o ":"), SP, W(ToString(lineCount)), SP, W("lines]"), SP>>
          \o TrimSpace(preview) \o <<W("...")>>

\* a rewrite that loses the id of the call the message answers
CompactMiddle_LosesCallId(msg) ==
  IF msg.role = "tool" /\ TextLen(msg.content) > TruncatedResultSize
  THEN ToolMessage(0, TruncateToolResult("tool", msg.content))
  ELSE msg

\* the loop body of CompactHistory on one message of the middle window
CompactMiddle(msg) ==
  IF msg.role = "tool" /\ TextLen(msg.content) > TruncatedResultSize
  THEN ToolMessage(msg.tool_call_id, TruncateToolResult("tool", msg.content))
  ELSE msg

\* a compaction that does not look at the budget
CompactHistory_WhateverTheCost(history, maxTokens) ==
  IF Len(history) <= RecentMessagesKeep + 1 THEN history
  ELSE LET middleEnd == Len(history) - RecentMessagesKeep
       IN [i \in 1..Len(history) |->
            IF i = 1 THEN history[1]
            ELSE IF i <= middleEnd THEN CompactMiddle(history[i])
            ELSE history[i]]

CompactHistory(history, maxTokens) ==
  IF EstimateHistoryTokens(history) < maxTokens THEN history
  ELSE IF Len(history) <= RecentMessagesKeep + 1 THEN history
  ELSE LET middleEnd == Len(history) - RecentMessagesKeep
       IN [i \in 1..Len(history) |->
            IF i = 1 THEN history[1]
            ELSE IF i <= middleEnd THEN CompactMiddle(history[i])
            ELSE history[i]]

\* ---------------------------------------------------------- content coercion
\* a search that stops at the oldest record of toolName
LastToolResult_Oldest(execs, toolName) ==
  LET hits == {i \in 1..Len(execs) : execs[i].Name = toolName}
  IN IF hits = {} THEN [found |-> FALSE, result |-> <<>>]
     ELSE [found |-> TRUE,
           result |-> execs[CHOOSE i \in hits : \A j \in hits : i <= j].Result]

\* the most recent record of toolName: [found, result]
LastToolResult(execs, toolName) ==
  LET hits == {i \in 1..Len(execs) : execs[i].Name = toolName}
  IN IF hits = {} THEN [found |-> FALSE, result |-> <<>>]
     ELSE [found |-> TRUE,
           result |-> execs[CHOOSE i \in hits : \A j \in hits : j <= i].Result]

EmptyDirectory == <<W("(empty directory)")>>

TrimPrefix(t, word) == IF t # <<>> /\ t[1] = W(word) THEN Tail(t) ELSE t

FormatLsResultAsAnswer(lsResult0) ==
  LET lsResult == TrimSpace(lsResult0)
      lines == SplitLines(lsResult)
      item(line) == TrimSpace(TrimPrefix(TrimPrefix(TrimSpace(line), "[FILE]"), "[DIR]"))
      RECURSIVE collect(_)
      collect(i) == IF i > Len(lines) THEN <<>>
                    ELSE IF TrimSpace(lines[i]) = <<>> \/ item(lines[i]) = <<>>
                    THEN collect(i + 1)
                    ELSE <<item(lines[i])>> \o collect(i + 1)
      items == collect(1)
      RECURSIVE bullets(_)
      bullets(its) == IF its = <<>> THEN <<>>
                      ELSE <<W("-"), SP>> \o Head(its) \o <<NL>> \o bullets(Tail(its))
      body == <<W("Entries in the current directory:"), NL>> \o bullets(items)
  IN IF lsResult = <<>> \/ lsResult = EmptyDirectory \/ items = <<>>
     THEN <<W("The current directory is empty.")>>
     ELSE SubSeq(body, 1, Len(body) - 1)

\* strings.ToLower on the words of the menu
ToLower(t) ==
  [i \in 1..Len(t) |->
     IF t[i] = W("No files") THEN W("no files")
     ELSE IF t[i] = W("DIRECTORY IS EMPTY") THEN W("directory is empty")
     ELSE t[i]]

CoerceAgentFinalContent(content, execs) ==
  LET trimmed == TrimSpace(content)
      ls == LastToolResult(execs, "ls")
      low == ToLower(trimmed)
  IN IF trimmed = <<>>
     THEN IF ls.found THEN FormatLsResultAsAnswer(ls.result) ELSE content
     ELSE IF ParseInlineToolCall(trimmed).ok
     THEN IF ls.found THEN FormatLsResultAsAnswer(ls.result) ELSE content
     ELSE IF /\ \/ ContainsChunk(low, "no files")
                \/ ContainsChunk(low, "directory appears to be empty")
                \/ ContainsChunk(low, "directory is empty")
             /\ ls.found
             /\ TrimSpace(ls.result) # <<>>
             /\ TrimSpace(ls.result) # EmptyDirectory
     THEN FormatLsResultAsAnswer(TrimSpace(ls.result))
     ELSE content

\* ------------------------------------------------------- the remote model's menu
(***************************************************************************)
(* What a completion call can return: an error, a response without         *)
(* choices, or one choice with content, structured tool calls and usage.   *)
(***************************************************************************)
Obj(members) ==
  LET RECURSIVE join(_)
      join(ms) == IF ms = <<>> THEN <<>>
                  ELSE IF Len(ms) = 1 THEN <<W(ms[1])>>
                  ELSE <<W(ms[1]), W(",")>> \o join(Tail(ms))
  IN <<W("{")>> \o join(members) \o <<W("}")>>

Call(name, args) == [name |-> name, arguments |-> args]

Truncated == <<W("{"), W("\"path\":")>>

\* resp.Usage differs from one answer to another
Choice(content, calls) ==
  [kind |-> "choice", content |-> content, calls |-> calls,
   prompt |-> 10 + Len(calls), completion |-> 5 + Len(content)]

LsCall == Call("ls", Obj(<<>>))

EditCall == Call("edit", Obj(<<"\"path\":\"a.txt\"", "\"old\":\"x\"", "\"new\":\"y\"">>))

Answers ==
  { [kind |-> "error", content |-> <<>>, calls |-> <<>>, prompt |-> 0, completion |-> 0],
    [kind |-> "nochoice", content |-> <<>>, calls |-> <<>>, prompt |-> 10, completion |-> 0],
    Choice(<<W("Done"), W(".")>>, <<>>),
    Choice(<<>>, <<>>),
    Choice(<<W("The"), SP, W("directory is empty"), W(".")>>, <<>>),
    Choice(<<W("ls"), W("{"), W("}")>>, <<>>),
    Choice(<<W("rm"), SP, W("{"), W("}")>>, <<>>),
    Choice(<<W("ls"), W("{"), W("oops"), W("}")>>, <<>>),
    Choice(<<W("The"), SP, W("directory is empty"), W(".")>>, <<LsCall>>),
    Choice(<<>>, <<EditCall,
                   Call("write", Obj(<<"\"path\":\"a.txt\"", "\"content\":\"x\"">>)),
                   EditCall, EditCall,
                   Call("grep", Obj(<<"\"pat\":\"x\"">>)),
                   Call("glob", Obj(<<"\"pat\":\"*.txt\"">>)),
                   Call("bash", Obj(<<"\"cmd\":\"rm a.txt\"">>)),
                   LsCall>>),
    Choice(<<>>, <<Call("read", Obj(<<"\"path\":\"nosuch\"">>)),
                   Call("grep", Obj(<<"\"pat\":\"[\"">>)),
                   Call("frob", Obj(<<>>)),
                   Call("ls", Truncated),
                   Call("bash", Obj(<<"\"cmd\":\"false\"">>)),
                   Call("bash", Obj(<<"\"cmd\":\"ls nosuch\"">>)),
                   Call("bash", Obj(<<"\"cmd\":\"./slow\"">>)),
                   Call("bash", Obj(<<"\"cmd\":\"sleep 60\"">>)),
                   Call("read", Obj(<<"\"path\":\"a.txt\"">>))>>),
    Choice(<<>>, <<Call("bash", Obj(<<"\"cmd\":\"./gen\"">>))>>),
    Choice(<<W("ls"), W("{"), W("}")>>, <<Call("glob", Obj(<<"\"pat\":\"*.txt\"">>)),
                                         Call("grep", Obj(<<"\"pat\":\"x\"">>))>>) }

UserInputs == {"list files", "/clear"}

ChatSystemPrompt == <<Opaque("ChatSystemPrompt", 333)>>

AgentSystemPrompt == <<Opaque("AgentSystemPrompt", 673)>>

\* -------------------------------------------------------------------- state
VARIABLES
  History, Loading, AppMode, InputTokens, OutputTokens, ContextTokens,
  ExecutingTool, ToolActions, CurrentChatID, Err, HistoryOpen,   \* the fields of Model
  ModelSelectorOpen, ShortcutsOpen, SelectedModelIndex, CurrentModel,
  HistorySelectedIdx, HistoryChats,
  db,          \* the history database: [chats, rows, models], models[c] the
               \* model_id of chat c
  inbox,       \* the message the event loop has taken and not yet handled
  pc, loc,     \* the SendMessage command: where it is, and its locals
  started,     \* the inputs of the SendMessage commands handed to the runtime
               \* that have not begun to run
  fs,          \* the working directory
  remote,      \* the completion endpoint: [last, idCtr]
  turns,       \* turns started
  choices,     \* choices the world has made
  obs,         \* what the endpoint, the sandbox and the event loop have seen
               \* of the current turn: [nCalls, everyAsked, sent, tools, usage,
               \* round, before, reset]
  call,        \* a helper called on its own: [fn, ...] with its arguments
  returned     \* what the helper returned: [done, ...]

ui == <<History, Loading, AppMode, InputTokens, OutputTokens, ContextTokens,
        ExecutingTool, ToolActions, CurrentChatID, Err, HistoryOpen, db>>

vars == <<History, Loading, AppMode, InputTokens, OutputTokens, ContextTokens,
          ExecutingTool, ToolActions, CurrentChatID, Err, HistoryOpen, db, inbox, pc, loc,
          started, fs, remote, turns, choices, obs, call, returned,
          ModelSelectorOpen, ShortcutsOpen, SelectedModelIndex, CurrentModel,
          HistorySelectedIdx, HistoryChats>>

\* the fields of Model behind the model selector, the shortcuts modal and the
\* list of the history modal
modals == <<ModelSelectorOpen, ShortcutsOpen, SelectedModelIndex, CurrentModel,
            HistorySelectedIdx, HistoryChats>>

\* the ids of AvailableModels
AvailableModels ==
  <<"google/gemini-3-flash-preview", "x-ai/grok-code-fast-1", "deepseek/deepseek-v3.2",
    "x-ai/grok-4.1-fast", "z-ai/glm-4.7", "minimax/minimax-m2.1", "perplexity/sonar-pro",
    "openai/gpt-oss-120b:free">>

\* FindModelByID: [ok, idx], idx counted from 0
FindModelByID(id) ==
  IF \E i \in 1..Len(AvailableModels) : AvailableModels[i] = id
  THEN [ok |-> TRUE, idx |-> (CHOOSE i \in 1..Len(AvailableModels) : AvailableModels[i] = id) - 1]
  ELSE [ok |-> FALSE, idx |-> 0]

pure == <<call, returned>>

NoChoice == [content |-> <<>>, tool_calls |-> <<>>]

NoLocals ==
  [input |-> "", systemPrompt |-> <<>>, history |-> <<>>, iteration |-> 0,
   toolExecs |-> <<>>, totalPromptTokens |-> 0, totalCompletionTokens |-> 0,
   choice |-> NoChoice, inline |-> NoInline, idx |-> 0, ret |-> [type |-> "none"]]

NoObs == [nCalls |-> 0, everyAsked |-> TRUE, sent |-> <<>>, tools |-> FALSE,
          usage |-> <<>>, round |-> <<>>, before |-> <<>>, reset |-> FALSE]

NoCall == [fn |-> ""]

NotReturned == [done |-> FALSE]

\* the Model in mode `mode` before the first message, and the world around it
ModelIn(mode) ==
  /\ History = <<>>
  /\ Loading = FALSE
  /\ AppMode = mode
  /\ InputTokens = 0
  /\ OutputTokens = 0
  /\ ContextTokens = 0
  /\ ExecutingTool = ""
  /\ ToolActions = <<>>
  /\ CurrentChatID = 0
  /\ Err = ""
  /\ HistoryOpen = FALSE
  /\ HistorySelectedIdx = 0
  /\ HistoryChats = <<>>
  /\ ModelSelectorOpen = FALSE
  /\ ShortcutsOpen = FALSE
  /\ CurrentModel = AvailableModels[1]
  /\ SelectedModelIndex = 0
  /\ inbox = <<>>
  /\ pc = "idle"
  /\ started = <<>>
  /\ loc = NoLocals
  /\ fs = ("a.txt" :> <<W("x"), W("x")>>)
  /\ remote = [last |-> Choice(<<W("Done"), W(".")>>, <<>>), idCtr |-> 0]
  /\ turns = 0
  /\ choices = 0
  /\ obs = NoObs

\* the Model that InitialModel builds: "Start in chat mode by default"
InitialModel == ModelIn("chat") /\ db = [chats |-> 0, rows |-> <<>>, models |-> <<>>]

Init ==
  /\ InitialModel
  /\ call = NoCall
  /\ returned = NotReturned

\* --------------------------------------------------------- the Update handlers
ResetSession ==
  /\ History' = <<>>
  /\ CurrentChatID' = 0
  /\ InputTokens' = 0
  /\ OutputTokens' = 0
  /\ ContextTokens' = 0
  /\ HistoryOpen' = FALSE

\* PersistUserMessage / PersistAssistantMessage: the rows and the chat id after
InsertDBMessage(d, chat, role, content) ==
  [d EXCEPT !.rows = Append(@, [chat |-> chat, role |-> role, content |-> content])]

PersistUserMessage(content) ==
  IF CurrentChatID = 0
  THEN /\ CurrentChatID' = db.chats + 1
       /\ db' = InsertDBMessage([db EXCEPT !.chats = @ + 1, !.models = Append(@, CurrentModel)],
                                db.chats + 1, "user", content)
  ELSE /\ CurrentChatID' = CurrentChatID
       /\ db' = InsertDBMessage([db EXCEPT !.models[CurrentChatID] = CurrentModel],
                                CurrentChatID, "user", content)

PersistAssistantMessage(content) ==
  IF CurrentChatID = 0 THEN db' = db
  ELSE db' = InsertDBMessage(db, CurrentChatID, "assistant", content)

KeyCtrlN ==
  /\ ~HistoryOpen /\ ~ModelSelectorOpen /\ ~ShortcutsOpen
  /\ choices < MaxChoices
  /\ choices' = choices + 1
  /\ ResetSession
  /\ obs' = [obs EXCEPT !.reset = TRUE]
  /\ UNCHANGED <<Loading, AppMode, ExecutingTool, ToolActions, Err, db, inbox, pc, loc,
                 fs, remote, turns, started, pure, modals>>

KeyCtrlA ==
  /\ ~HistoryOpen /\ ~ModelSelectorOpen /\ ~ShortcutsOpen
  /\ choices < MaxChoices
  /\ choices' = choices + 1
  /\ AppMode' = IF AppMode = "chat" THEN "agent" ELSE "chat"
  /\ UNCHANGED <<History, Loading, InputTokens, OutputTokens, ContextTokens, ExecutingTool,
                 ToolActions, CurrentChatID, Err, HistoryOpen, db, inbox, pc, loc, fs, remote, turns, obs, started, pure, modals>>

\* Enter on "/clear" or "/reset"
KeyEnterClear ==
  /\ ~HistoryOpen /\ ~ModelSelectorOpen /\ ~ShortcutsOpen
  /\ ~Loading
  /\ "/clear" \in UserInputs
  /\ choices < MaxChoices
  /\ choices' = choices + 1
  /\ ResetSession
  /\ obs' = [obs EXCEPT !.reset = TRUE]
  /\ UNCHANGED <<Loading, AppMode, ExecutingTool, ToolActions, Err, db, inbox, pc, loc,
                 fs, remote, turns, started, pure, modals>>

\* a closure that keeps the tool records of the turn before
Begun_KeepsRecords(input) ==
  /\ pc' = "build"
  /\ loc' = [NoLocals EXCEPT !.input = input, !.toolExecs = loc.toolExecs]
  /\ turns' = turns + 1
  /\ obs' = [NoObs EXCEPT !.before = History]

\* the first lines of the command's closure run
Begun(input) ==
  /\ pc' = "build"
  /\ loc' = [NoLocals EXCEPT !.input = input]
  /\ turns' = turns + 1
  /\ obs' = [NoObs EXCEPT !.before = History]

\* Enter on a message: the turn's command is handed to the runtime, which runs
\* it in a goroutine of its own.  A command handed over while another is in
\* flight begins once that one's message has been handled (one of the
\* schedules the runtime allows).
KeyEnter(input) ==
  /\ ~HistoryOpen /\ ~ModelSelectorOpen /\ ~ShortcutsOpen
  /\ ~Loading
  /\ input \notin {"", "/clear", "/reset"}
  /\ choices < MaxChoices
  /\ choices' = choices + 1
  /\ PersistUserMessage(<<W(input)>>)
  /\ Loading' = TRUE
  /\ IF pc = "idle" /\ inbox = <<>> /\ started = <<>>
     THEN Begun(input) /\ started' = started
     ELSE started' = Append(started, input) /\ UNCHANGED <<pc, loc, turns, obs, modals>>
  /\ UNCHANGED <<History, AppMode, InputTokens, OutputTokens, ContextTokens, ExecutingTool,
                 ToolActions, Err, HistoryOpen, inbox, fs, remote, pure, modals>>

\* the goroutine of a command that had to wait begins to run
CommandRuns ==
  /\ started # <<>>
  /\ pc = "idle"
  /\ inbox = <<>>
  /\ Begun(Head(started))
  /\ started' = Tail(started)
  /\ UNCHANGED <<ui, inbox, fs, remote, choices, pure, modals>>

\* db.GetRecentChats on the first page: the chats, the one written to last
\* first, as [ID, ModelID]
GetRecentChats(d) ==
  LET last(c) == CHOOSE i \in 1..Len(d.rows) :
                   d.rows[i].chat = c /\ \A j \in 1..Len(d.rows) : d.rows[j].chat = c => j <= i
      ids == {c \in 1..d.chats : \E i \in 1..Len(d.rows) : d.rows[i].chat = c}
      RECURSIVE sorted(_)
      sorted(cs) == IF cs = {} THEN <<>>
                    ELSE LET c == CHOOSE x \in cs : \A y \in cs : last(y) <= last(x)
                         IN <<[ID |-> c, ModelID |-> d.models[c]]>> \o sorted(cs \ {c})
  IN sorted(ids)

RefreshHistoryFromDB ==
  /\ HistoryChats' = GetRecentChats(db)
  /\ HistorySelectedIdx' = 0

\* Ctrl+H opens the history modal, and closes it when it is open
KeyCtrlH ==
  /\ ~ModelSelectorOpen /\ ~ShortcutsOpen
  /\ choices < MaxChoices
  /\ choices' = choices + 1
  /\ IF HistoryOpen
     THEN /\ HistoryOpen' = FALSE
          /\ UNCHANGED <<ModelSelectorOpen, ShortcutsOpen, HistorySelectedIdx, HistoryChats>>
     ELSE /\ ModelSelectorOpen' = FALSE
          /\ HistoryOpen' = TRUE
          /\ ShortcutsOpen' = FALSE
          /\ RefreshHistoryFromDB
  /\ UNCHANGED <<History, Loading, AppMode, InputTokens, OutputTokens, ContextTokens,
                 ExecutingTool, ToolActions, CurrentChatID, Err, db, inbox, pc, loc, fs,
                 remote, turns, obs, started, pure, SelectedModelIndex, CurrentModel>>

\* the History that LoadChatFromDB rebuilds from the rows of a chat
LoadedHistory(chat) ==
  LET rows == SelectSeq(db.rows, LAMBDA row : row.chat = chat)
  IN [i \in 1..Len(rows) |->
        IF rows[i].role = "user" THEN UserMessage(rows[i].content)
        ELSE AssistantMessage(rows[i].content)]

LoadChatFromDB(chat, modelID) ==
  /\ IF modelID # ""
     THEN /\ CurrentModel' = modelID
          /\ SelectedModelIndex' = FindModelByID(modelID).idx
     ELSE UNCHANGED <<CurrentModel, SelectedModelIndex>>
  /\ CurrentChatID' = chat
  /\ Loading' = FALSE
  /\ InputTokens' = 0
  /\ OutputTokens' = 0
  /\ History' = LoadedHistory(chat)

\* the cursor of the history modal is moved to a chat of the list, and Enter
\* is pressed on it
KeyHistoryEnter(chat) ==
  /\ HistoryOpen
  /\ \E i \in 1..Len(HistoryChats) : HistoryChats[i].ID = chat
  /\ choices < MaxChoices
  /\ choices' = choices + 1
  /\ LET i == CHOOSE k \in 1..Len(HistoryChats) : HistoryChats[k].ID = chat
     IN /\ HistorySelectedIdx' = i - 1
        /\ LoadChatFromDB(chat, HistoryChats[i].ModelID)
  /\ HistoryOpen' = FALSE
  /\ obs' = [obs EXCEPT !.reset = TRUE]
  /\ UNCHANGED <<AppMode, ContextTokens, ExecutingTool, ToolActions, Err, db, inbox, pc, loc,
                 fs, remote, turns, started, pure, ModelSelectorOpen, ShortcutsOpen,
                 HistoryChats>>

\* up / k and down / j in the history modal
KeyHistoryMove(d) ==
  /\ HistoryOpen
  /\ HistoryChats # <<>>
  /\ choices < MaxChoices
  /\ choices' = choices + 1
  /\ HistorySelectedIdx' = IF HistorySelectedIdx + d < 0 THEN Len(HistoryChats) - 1
                           ELSE IF HistorySelectedIdx + d >= Len(HistoryChats) THEN 0
                           ELSE HistorySelectedIdx + d
  /\ UNCHANGED <<ui, inbox, pc, loc, fs, remote, turns, obs, started, pure,
                 ModelSelectorOpen, ShortcutsOpen, SelectedModelIndex, CurrentModel,
                 HistoryChats>>

KeyCtrlB ==
  /\ ~HistoryOpen /\ ~ModelSelectorOpen /\ ~ShortcutsOpen
  /\ choices < MaxChoices
  /\ choices' = choices + 1
  /\ ModelSelectorOpen' = TRUE
  /\ HistoryOpen' = FALSE
  /\ ShortcutsOpen' = FALSE
  /\ UNCHANGED <<History, Loading, AppMode, InputTokens, OutputTokens, ContextTokens,
                 ExecutingTool, ToolActions, CurrentChatID, Err, db, inbox, pc, loc, fs,
                 remote, turns, obs, started, pure, SelectedModelIndex, CurrentModel,
                 HistorySelectedIdx, HistoryChats>>

KeyCtrlS ==
  /\ ~HistoryOpen /\ ~ModelSelectorOpen /\ ~ShortcutsOpen
  /\ choices < MaxChoices
  /\ choices' = choices + 1
  /\ ShortcutsOpen' = TRUE
  /\ ModelSelectorOpen' = FALSE
  /\ HistoryOpen' = FALSE
  /\ UNCHANGED <<History, Loading, AppMode, InputTokens, OutputTokens, ContextTokens,
                 ExecutingTool, ToolActions, CurrentChatID, Err, db, inbox, pc, loc, fs,
                 remote, turns, obs, started, pure, SelectedModelIndex, CurrentModel,
                 HistorySelectedIdx, HistoryChats>>

\* esc or ctrl+b in the model selector
KeySelectorClose ==
  /\ ~HistoryOpen /\ ModelSelectorOpen
  /\ choices < MaxChoices
  /\ choices' = choices + 1
  /\ ModelSelectorOpen' = FALSE
  /\ UNCHANGED <<ui, inbox, pc, loc, fs, remote, turns, obs, started, pure, ShortcutsOpen,
                 SelectedModelIndex, CurrentModel, HistorySelectedIdx, HistoryChats>>

\* a selector whose cursor runs off the list
KeySelectorMove_NoWrap(d) ==
  /\ ~HistoryOpen /\ ModelSelectorOpen
  /\ choices < MaxChoices
  /\ choices' = choices + 1
  /\ SelectedModelIndex' = SelectedModelIndex + d
  /\ UNCHANGED <<ui, inbox, pc, loc, fs, remote, turns, obs, started, pure, ModelSelectorOpen,
                 ShortcutsOpen, CurrentModel, HistorySelectedIdx, HistoryChats>>

\* up / k and down / j in the model selector
KeySelectorMove(d) ==
  /\ ~HistoryOpen /\ ModelSelectorOpen
  /\ choices < MaxChoices
  /\ choices' = choices + 1
  /\ SelectedModelIndex' = IF SelectedModelIndex + d < 0 THEN Len(AvailableModels) - 1
                           ELSE IF SelectedModelIndex + d >= Len(AvailableModels) THEN 0
                           ELSE SelectedModelIndex + d
  /\ UNCHANGED <<ui, inbox, pc, loc, fs, remote, turns, obs, started, pure, ModelSelectorOpen,
                 ShortcutsOpen, CurrentModel, HistorySelectedIdx, HistoryChats>>

\* Enter in the model selector
KeySelectorEnter ==
  /\ ~HistoryOpen /\ ModelSelectorOpen
  /\ choices < MaxChoices
  /\ choices' = choices + 1
  /\ CurrentModel' = AvailableModels[SelectedModelIndex + 1]
  /\ ModelSelectorOpen' = FALSE
  /\ UNCHANGED <<ui, inbox, pc, loc, fs, remote, turns, obs, started, pure, ShortcutsOpen,
                 SelectedModelIndex, HistorySelectedIdx, HistoryChats>>

\* esc, enter, ? or ctrl+s in the shortcuts modal
KeyShortcutsClose ==
  /\ ~HistoryOpen /\ ~ModelSelectorOpen /\ ShortcutsOpen
  /\ choices < MaxChoices
  /\ choices' = choices + 1
  /\ ShortcutsOpen' = FALSE
  /\ UNCHANGED <<ui, inbox, pc, loc, fs, remote, turns, obs, started, pure, ModelSelectorOpen,
                 SelectedModelIndex, CurrentModel, HistorySelectedIdx, HistoryChats>>

HandleToolCallMsg ==
  /\ inbox # <<>>
  /\ Head(inbox).type = "ToolCallMsg"
  /\ ExecutingTool' = Head(inbox).Name
  /\ inbox' = Tail(inbox)
  /\ UNCHANGED <<History, Loading, AppMode, InputTokens, OutputTokens, ContextTokens,
                 ToolActions, CurrentChatID, Err, HistoryOpen, db, pc, loc, fs, remote, turns, choices, obs, started, pure, modals>>

HandleToolResultMsg ==
  /\ inbox # <<>>
  /\ Head(inbox).type = "ToolResultMsg"
  /\ ExecutingTool' = ""
  /\ ToolActions' = Append(ToolActions, [Name |-> Head(inbox).Name, Summary |-> Head(inbox).Summary])
  /\ inbox' = Tail(inbox)
  /\ UNCHANGED <<History, Loading, AppMode, InputTokens, OutputTokens, ContextTokens,
                 CurrentChatID, Err, HistoryOpen, db, pc, loc, fs, remote, turns, choices, obs, started, pure, modals>>

HandleResponseMsg ==
  /\ inbox # <<>>
  /\ Head(inbox).type = "ResponseMsg"
  /\ Loading' = FALSE
  /\ InputTokens' = InputTokens + Head(inbox).PromptTokens
  /\ OutputTokens' = OutputTokens + Head(inbox).CompletionTokens
  /\ History' = Head(inbox).History
  /\ ContextTokens' = Head(inbox).ContextTokens
  /\ ToolActions' = <<>>
  /\ PersistAssistantMessage(Head(inbox).Content)
  /\ inbox' = Tail(inbox)
  /\ UNCHANGED <<AppMode, ExecutingTool, CurrentChatID, Err, HistoryOpen, pc, loc, fs, remote, turns, choices, obs, started, pure, modals>>

\* an ErrMsg handler that also drops the stored history
HandleErrMsg_DropsHistory ==
  /\ inbox # <<>>
  /\ Head(inbox).type = "ErrMsg"
  /\ Loading' = FALSE
  /\ Err' = Head(inbox).err
  /\ History' = <<>>
  /\ inbox' = Tail(inbox)
  /\ UNCHANGED <<AppMode, InputTokens, OutputTokens, ContextTokens, ExecutingTool,
                 ToolActions, CurrentChatID, HistoryOpen, db, pc, loc, fs, remote, turns, choices,
                 obs, started, pure, modals>>

HandleErrMsg ==
  /\ inbox # <<>>
  /\ Head(inbox).type = "ErrMsg"
  /\ Loading' = FALSE
  /\ Err' = Head(inbox).err
  /\ inbox' = Tail(inbox)
  /\ UNCHANGED <<History, AppMode, InputTokens, OutputTokens, ContextTokens, ExecutingTool,
                 ToolActions, CurrentChatID, HistoryOpen, db, pc, loc, fs, remote, turns, choices,
                 obs, started, pure, modals>>

\* ---------------------------------------------------------- completion endpoint
\* what Chat.Completions.New may return now
Settled(a) == IF Len(a.calls) <= 1 THEN a ELSE Choice(<<W("Done"), W(".")>>, <<>>)

Offered == {Settled(remote.last)} \cup (IF choices < MaxChoices THEN Answers ELSE {})

\* the choices made once the endpoint returned a
Drawn(a, settled) == IF a = settled THEN choices ELSE choices + 1

\* the endpoint after it returned a
Answered(a) ==
  [last |-> a,
   idCtr |-> remote.idCtr + Len(a.calls)]

\* resp.Choices[0].Message of a: its tool calls carry fresh ids
Message(a) ==
  [content |-> a.content,
   tool_calls |-> [i \in 1..Len(a.calls) |->
                     [id |-> remote.idCtr + i, name |-> a.calls[i].name,
                      arguments |-> a.calls[i].arguments]]]

\* the endpoint's record of one more call with the list `messages`; tools
\* tells whether the request advertised tools.Definitions
Called(messages, asked, tools) ==
  [obs EXCEPT !.nCalls = @ + 1, !.everyAsked = @ /\ asked, !.sent = messages,
              !.tools = tools, !.round = <<>>]

\* the endpoint's record of the usage it reported with answer a
Reported(o, a) ==
  IF a.kind = "error" THEN o
  ELSE [o EXCEPT !.usage = Append(@, [prompt |-> a.prompt, completion |-> a.completion])]

Event(e, idx, name, primitive) == [e |-> e, idx |-> idx, name |-> name, primitive |-> primitive]

Seen(ev) == [obs EXCEPT !.round = Append(@, ev)]

\* ------------------------------------------------------------------ SendMessage
ErrMsg(e) == [type |-> "ErrMsg", err |-> e]

\* a return that stores the outgoing list as it is
StoredHistory_KeepsSystem(history) == history

\* "Remove system message from history before storing"
StoredHistory(history) == Tail(history)

ResponseMsg(content, promptTokens, completionTokens, storedHistory) ==
  [type |-> "ResponseMsg", Content |-> content, PromptTokens |-> promptTokens,
   CompletionTokens |-> completionTokens, History |-> storedHistory,
   ContextTokens |-> EstimateHistoryTokens(storedHistory)]

GetMaxContextTokens == DefaultContextTokens

\* the closure's first lines: the system prompt and the outgoing history
TurnBuild ==
  /\ pc = "build"
  /\ LET systemPrompt == IF AppMode = "agent" THEN AgentSystemPrompt ELSE ChatSystemPrompt
     IN loc' = [loc EXCEPT !.systemPrompt = systemPrompt,
                           !.history = <<SystemMessage(systemPrompt)>> \o History
                                       \o <<UserMessage(<<W(loc.input)>>)>>]
  /\ pc' = "mode"
  /\ UNCHANGED <<ui, inbox, fs, remote, turns, choices, obs, started, pure, modals>>

\* "if m.AppMode == models.ModeChat"
TurnMode ==
  /\ pc = "mode"
  /\ pc' = IF AppMode = "chat" THEN "chat" ELSE "loop"
  /\ UNCHANGED <<ui, inbox, loc, fs, remote, turns, choices, obs, started, pure, modals>>

\* a chat call that advertises the tool definitions
ChatCall_WithTools(a) ==
  /\ pc = "chat"
  /\ a \in Offered
  /\ remote' = Answered(a)
  /\ choices' = Drawn(a, Settled(remote.last))
  /\ obs' = Reported(Called(loc.history, FALSE, TRUE), a)
  /\ loc' = [loc EXCEPT !.ret =
               IF a.kind = "error" THEN ErrMsg("completion failed")
               ELSE IF a.kind = "nochoice" THEN ErrMsg("empty response from model")
               ELSE ResponseMsg(a.content, a.prompt, a.completion,
                                Append(StoredHistory(loc.history), ToParam(Message(a))))]
  /\ pc' = "deliver"
  /\ UNCHANGED <<ui, inbox, fs, turns, started, pure, modals>>

\* Chat mode: single API call without tools.  The response is stored as it
\* came, tool calls included if the endpoint sent any.
ChatCall(a) ==
  /\ pc = "chat"
  /\ a \in Offered
  /\ remote' = Answered(a)
  /\ choices' = Drawn(a, Settled(remote.last))
  /\ obs' = Reported(Called(loc.history, FALSE, FALSE), a)
  /\ loc' = [loc EXCEPT !.ret =
               IF a.kind = "error" THEN ErrMsg("completion failed")
               ELSE IF a.kind = "nochoice" THEN ErrMsg("empty response from model")
               ELSE ResponseMsg(a.content, a.prompt, a.completion,
                                Append(StoredHistory(loc.history), ToParam(Message(a))))]
  /\ pc' = "deliver"
  /\ UNCHANGED <<ui, inbox, fs, turns, started, pure, modals>>

\* a ceiling test that is one iteration late
AtCeiling_OneLate(iteration) == iteration > MaxToolIterations

\* "if iteration >= MaxToolIterations"
AtCeiling(iteration) == iteration >= MaxToolIterations

\* the response asks for tools: structured calls or an accepted inline call
Asks(msg) == msg.tool_calls # <<>> \/ ParseInlineToolCall(msg.content).ok

\* an append that keeps the text the model returned alongside its tool calls
AssistantParam_KeepsContent(msg) == ToParam(msg)

\* the assistant message appended to the history
AssistantParam(msg) == ToParam(IF Asks(msg) THEN [msg EXCEPT !.content = <<>>] ELSE msg)

StoppedNotice ==
  <<NL, NL, W("*[Stopped after " \o ToString(MaxToolIterations) \o " tool iterations]*")>>

\* the content returned at the ceiling, before coercion
CeilingContent(msg) == IF Asks(msg) THEN msg.content \o StoppedNotice ELSE msg.content

\* a loop that serves the structured calls before it tests the ceiling
Dispatch_CallsBeforeCeiling(iteration, msg) ==
  IF msg.tool_calls # <<>> THEN "toolstart"
  ELSE IF AtCeiling(iteration) THEN "ceiling"
  ELSE IF ParseInlineToolCall(msg.content).ok THEN "inlinestart"
  ELSE "final"

\* a loop that tests the inline pattern before the structured calls
Dispatch_InlineFirst(iteration, msg) ==
  IF AtCeiling(iteration) THEN "ceiling"
  ELSE IF ParseInlineToolCall(msg.content).ok THEN "inlinestart"
  ELSE IF msg.tool_calls # <<>> THEN "toolstart"
  ELSE "final"

\* where the loop goes after the assistant message is appended
Dispatch(iteration, msg) ==
  IF AtCeiling(iteration) THEN "ceiling"
  ELSE IF msg.tool_calls # <<>> THEN "toolstart"
  ELSE IF ParseInlineToolCall(msg.content).ok THEN "inlinestart"
  ELSE "final"

\* a total that keeps only the usage of the latest call
AddUsage_LatestOnly(total, reported) == reported

\* "totalPromptTokens += resp.Usage.PromptTokens"
AddUsage(total, reported) == total + reported

\* one iteration of the agent loop up to the tool calls
AgentCall(a) ==
  /\ pc = "loop"
  /\ a \in Offered
  /\ LET iteration == loc.iteration + 1
         compacted == CompactHistory(loc.history, GetMaxContextTokens)
         msg == Message(a)
         history == Append(compacted, AssistantParam(msg))
         prompt == AddUsage(loc.totalPromptTokens, a.prompt)
         completion == AddUsage(loc.totalCompletionTokens, a.completion)
         next == Dispatch(iteration, msg)
         content == IF next = "ceiling" THEN CeilingContent(msg) ELSE msg.content
     IN /\ remote' = Answered(a)
        /\ choices' = Drawn(a, Settled(remote.last))
        /\ obs' = Reported(Called(compacted, a.kind = "choice" /\ Asks(msg), TRUE), a)
        /\ IF a.kind = "error"
           THEN /\ loc' = [loc EXCEPT !.iteration = iteration, !.history = compacted,
                                      !.ret = ErrMsg("completion failed")]
                /\ pc' = "deliver"
           ELSE IF a.kind = "nochoice"
           THEN /\ loc' = [loc EXCEPT !.iteration = iteration, !.history = compacted,
                                      !.totalPromptTokens = prompt,
                                      !.totalCompletionTokens = completion,
                                      !.ret = ErrMsg("empty response from model")]
                /\ pc' = "deliver"
           ELSE /\ loc' = [loc EXCEPT
                             !.iteration = iteration, !.history = history,
                             !.totalPromptTokens = prompt,
                             !.totalCompletionTokens = completion,
                             !.choice = msg,
                             !.inline = ParseInlineToolCall(msg.content),
                             !.idx = IF next \in {"toolstart", "inlinestart"} THEN 1 ELSE 0,
                             !.ret = IF next \in {"ceiling", "final"}
                                     THEN ResponseMsg(
                                            CoerceAgentFinalContent(content, loc.toolExecs),
                                            prompt, completion, StoredHistory(history))
                                     ELSE loc.ret]
                /\ pc' = IF next \in {"ceiling", "final"} THEN "deliver" ELSE next
  /\ UNCHANGED <<ui, inbox, fs, turns, started, pure, modals>>

\* a result that carries the error's text without the "error: " in front
ToolResult_DropsPrefix(x) == IF x.r.isErr THEN x.r.errText ELSE x.r.res

\* result, err := tools.ExecuteTool(...); if err != nil { result = "error: ..." }
ToolResult(x) == IF x.r.isErr THEN ErrorPrefix \o x.r.errText ELSE x.r.res

\* a record of the call that leaves the Tool message out of the history
Recorded_SkipsHistory(l, tc, result) ==
  [l EXCEPT !.toolExecs = Append(@, [Name |-> tc.name, Args |-> tc.arguments, Result |-> result])]

\* toolExecs and history after a structured call's result
Recorded(l, tc, result) ==
  [l EXCEPT !.toolExecs = Append(@, [Name |-> tc.name, Args |-> tc.arguments, Result |-> result]),
            !.history = Append(@, ToolMessage(tc.id, result))]

\* toolExecs and history after the inline call's result
RecordedInline(l, result) ==
  [l EXCEPT !.toolExecs = Append(@, [Name |-> l.inline.name, Args |-> l.inline.argsJSON,
                                      Result |-> result]),
            !.history = Append(@, AssistantMessage(
                           <<W("Tool"), SP, W(l.inline.name), SP, W("result:"), NL>> \o result))]

\* m.Program.Send(ToolCallMsg{...}) for structured call loc.idx
ToolStart ==
  /\ pc = "toolstart"
  /\ inbox = <<>>
  /\ LET tc == loc.choice.tool_calls[loc.idx]
     IN /\ inbox' = <<[type |-> "ToolCallMsg", Name |-> tc.name, Arguments |-> tc.arguments]>>
        /\ obs' = Seen(Event("start", loc.idx, tc.name, ""))
  /\ pc' = "toolexec"
  /\ UNCHANGED <<ui, loc, fs, remote, turns, choices, started, pure, modals>>

ToolExec ==
  /\ pc = "toolexec"
  /\ LET tc == loc.choice.tool_calls[loc.idx]
         x == ExecuteTool(tc.name, tc.arguments, fs)
     IN /\ fs' = x.r.fs
        /\ loc' = Recorded(loc, tc, ToolResult(x))
        /\ obs' = Seen(Event("exec", loc.idx, tc.name, x.primitive))
        /\ pc' = IF Crashed(x.r) THEN "crashed" ELSE "tooldone"
  /\ UNCHANGED <<ui, inbox, remote, turns, choices, started, pure, modals>>

\* m.Program.Send(ToolResultMsg{...}), then the next call or the next iteration
ToolDone ==
  /\ pc = "tooldone"
  /\ inbox = <<>>
  /\ LET tc == loc.choice.tool_calls[loc.idx]
         result == loc.toolExecs[Len(loc.toolExecs)].Result
     IN /\ inbox' = <<[type |-> "ToolResultMsg", Name |-> tc.name, Result |-> result,
                       Summary |-> GenerateToolSummary(tc.name, tc.arguments, result)]>>
        /\ obs' = Seen(Event("done", loc.idx, tc.name, ""))
  /\ IF loc.idx < Len(loc.choice.tool_calls)
     THEN /\ loc' = [loc EXCEPT !.idx = @ + 1]
          /\ pc' = "toolstart"
     ELSE /\ loc' = loc
          /\ pc' = "loop"
  /\ UNCHANGED <<ui, fs, remote, turns, choices, started, pure, modals>>

\* GLM-style inline tool call fallback
InlineStart ==
  /\ pc = "inlinestart"
  /\ inbox = <<>>
  /\ inbox' = <<[type |-> "ToolCallMsg", Name |-> loc.inline.name,
                 Arguments |-> loc.inline.argsJSON]>>
  /\ obs' = Seen(Event("start", 1, loc.inline.name, ""))
  /\ pc' = "inlineexec"
  /\ UNCHANGED <<ui, loc, fs, remote, turns, choices, started, pure, modals>>

InlineExec ==
  /\ pc = "inlineexec"
  /\ LET x == ExecuteTool(loc.inline.name, loc.inline.argsJSON, fs)
     IN /\ fs' = x.r.fs
        /\ loc' = RecordedInline(loc, ToolResult(x))
        /\ obs' = Seen(Event("exec", 1, loc.inline.name, x.primitive))
        /\ pc' = IF Crashed(x.r) THEN "crashed" ELSE "inlinedone"
  /\ UNCHANGED <<ui, inbox, remote, turns, choices, started, pure, modals>>

InlineDone ==
  /\ pc = "inlinedone"
  /\ inbox = <<>>
  /\ LET result == loc.toolExecs[Len(loc.toolExecs)].Result
     IN /\ inbox' = <<[type |-> "ToolResultMsg", Name |-> loc.inline.name, Result |-> result,
                       Summary |-> GenerateToolSummary(loc.inline.name, loc.inline.argsJSON,
                                                       result)]>>
        /\ obs' = Seen(Event("done", 1, loc.inline.name, ""))
  /\ pc' = "loop"
  /\ UNCHANGED <<ui, loc, fs, remote, turns, choices, started, pure, modals>>

\* a runtime that loses the message the command returns
Deliver_Lost ==
  /\ pc = "deliver"
  /\ inbox = <<>>
  /\ pc' = "idle"
  /\ UNCHANGED <<ui, inbox, loc, fs, remote, turns, choices, obs, started, pure, modals>>

\* the command returns: the runtime hands its message to the event loop
Deliver ==
  /\ pc = "deliver"
  /\ inbox = <<>>
  /\ inbox' = <<loc.ret>>
  /\ pc' = "idle"
  /\ UNCHANGED <<ui, loc, fs, remote, turns, choices, obs, started, pure, modals>>

Next ==
  \/ KeyCtrlN
  \/ KeyCtrlA
  \/ KeyEnterClear
  \/ \E input \in UserInputs : KeyEnter(input)
  \/ CommandRuns
  \/ KeyCtrlH
  \/ \E chat \in 1..MaxChoices : KeyHistoryEnter(chat)
  \/ HandleToolCallMsg
  \/ HandleToolResultMsg
  \/ HandleResponseMsg
  \/ HandleErrMsg
  \/ TurnBuild
  \/ TurnMode
  \/ \E a \in Answers : ChatCall(a)
  \/ \E a \in Answers : AgentCall(a)
  \/ ToolStart
  \/ ToolExec
  \/ ToolDone
  \/ InlineStart
  \/ InlineExec
  \/ InlineDone
  \/ Deliver

Spec == Init /\ [][Next]_vars

\* the statements of the command's goroutine between its calls: a started
\* command begins, builds its history, sends its notifications and returns
CommandSteps ==
  \/ CommandRuns
  \/ TurnBuild
  \/ TurnMode
  \/ ToolStart
  \/ ToolDone
  \/ InlineStart
  \/ InlineDone
  \/ Deliver

\* the steps of the event loop on the messages of the command
UpdateSteps ==
  \/ HandleToolCallMsg
  \/ HandleToolResultMsg
  \/ HandleResponseMsg
  \/ HandleErrMsg

\* Chat.Completions.New has an answer to return
CanAnswer == \E a \in Answers : a \in Offered

\* the program under a scheduler that lets the command's goroutine and the
\* event loop run whenever they can, with every completion call and every tool
\* execution returning; the user presses keys or does not.  The conditions on
\* the calls are weak fairness written out, []<>~ENABLED <<A>>_vars \/
\* []<><<A>>_vars, with the guard of the step for its enabling condition.
SpecFair ==
  /\ Spec
  /\ WF_vars(UpdateSteps)
  /\ WF_vars(CommandSteps)
  /\ ([]<>~(pc = "chat" /\ CanAnswer) \/ []<><<\E a \in Answers : ChatCall(a)>>_vars)
  /\ ([]<>~(pc = "loop" /\ CanAnswer) \/ []<><<\E a \in Answers : AgentCall(a)>>_vars)
  /\ ([]<>~(pc = "toolexec") \/ []<><<ToolExec>>_vars)
  /\ ([]<>~(pc = "inlineexec") \/ []<><<InlineExec>>_vars)

\* the program from the user's first Ctrl+A on: the session is in agent mode
\* before the first message
InitAgentMode ==
  /\ ModelIn("agent")
  /\ db = [chats |-> 0, rows |-> <<>>, models |-> <<>>]
  /\ call = NoCall
  /\ returned = NotReturned

SpecAgentMode == InitAgentMode /\ [][Next]_vars

\* the program started on a history database that holds a chat of an earlier
\* run: OpenArcaneDB opens the file the earlier runs wrote
InitStoredChat ==
  /\ ModelIn("chat")
  /\ db = [chats |-> 1, models |-> <<AvailableModels[1]>>,
           rows |-> <<[chat |-> 1, role |-> "user", content |-> <<W("earlier")>>],
                      [chat |-> 1, role |-> "assistant", content |-> <<W("Done"), W(".")>>]>>]
  /\ call = NoCall
  /\ returned = NotReturned

SpecStoredChat == InitStoredChat /\ [][Next]_vars

\* the program with two chats of earlier runs in its history database, one of
\* them written with a model that is no longer in AvailableModels
InitModals ==
  /\ ModelIn("chat")
  /\ db = [chats |-> 2, models |-> <<"old/model", AvailableModels[3]>>,
           rows |-> <<[chat |-> 1, role |-> "user", content |-> <<W("earlier")>>],
                      [chat |-> 2, role |-> "user", content |-> <<W("later")>>]>>]
  /\ call = NoCall
  /\ returned = NotReturned

\* Next leaves the model selector and the shortcuts modal closed; here the
\* user opens them too, and moves the cursor of the history modal
NextModals ==
  \/ Next
  \/ KeyCtrlB
  \/ KeyCtrlS
  \/ KeySelectorClose
  \/ \E d \in {0 - 1, 1} : KeySelectorMove(d)
  \/ KeySelectorEnter
  \/ KeyShortcutsClose
  \/ \E d \in {0 - 1, 1} : KeyHistoryMove(d)

SpecModals == InitModals /\ [][NextModals]_vars

\* ------------------------------------------------- the helpers called on their own
(***************************************************************************)
(* The pure helpers of internal/ui/helpers.go, each called once on         *)
(* arguments drawn from a bounded menu, as a unit test calls them.  The    *)
(* program itself stays as InitialModel leaves it.                         *)
(***************************************************************************)
SeqsUpTo(S, n) == UNION {[1..k -> S] : k \in 0..n}

ExecRecord(name, result) == [Name |-> name, Args |-> Obj(<<>>), Result |-> result]

\* the ls result "[FILE] a.txt\n[DIR] sub/"
ListingTwo == <<W("[FILE]"), SP, W("a.txt"), NL, W("[DIR]"), SP, W("sub/")>>

ListingOne == <<W("[FILE]"), SP, W("b.go"), NL>>

\* CoerceAgentFinalContent(content, execs).  The final texts come each with
\* what it is: empty, an inline tool call, a claim that the directory is
\* empty, or none of these.
CoerceCalls ==
  LET ExecRecords ==
        { ExecRecord("ls", ListingTwo),
          ExecRecord("ls", ListingOne),
          ExecRecord("ls", EmptyDirectory),
          ExecRecord("ls", <<>>),
          ExecRecord("ls", <<SP, NL, W("[FILE]"), NL>>),
          ExecRecord("read", <<SP, SP, SP, W("1"), W("|"), SP, W("x"), NL>>) }
      FinalTexts ==
        { [text |-> <<>>, is |-> "empty"],
          [text |-> <<SP, NL>>, is |-> "empty"],
          [text |-> <<W("ls"), W("{"), W("}")>>, is |-> "inline"],
          [text |-> <<NL, W("read"), SP, W("{"), W("\"path\":\"a.txt\""), W("}"), NL>>,
           is |-> "inline"],
          [text |-> <<W("The"), SP, W("directory is empty"), W(".")>>, is |-> "claim"],
          [text |-> <<W("THE"), SP, W("DIRECTORY IS EMPTY")>>, is |-> "claim"],
          [text |-> <<W("No files"), SP, W("here"), W(".")>>, is |-> "claim"],
          [text |-> <<W("The"), SP, W("directory appears to be empty"), W(".")>>, is |-> "claim"],
          [text |-> <<W("The"), SP, W("directory is empty"), W(".")>> \o StoppedNotice,
           is |-> "claim"],
          [text |-> <<W("Done"), W(".")>>, is |-> "other"],
          [text |-> <<W("rm"), SP, W("{"), W("}")>>, is |-> "other"],
          [text |-> <<W("ls"), W("{"), W("}")>> \o StoppedNotice, is |-> "other"] }
  IN { [fn |-> "CoerceAgentFinalContent", content |-> t.text, is |-> t.is, execs |-> e] :
         t \in FinalTexts, e \in SeqsUpTo(ExecRecords, MaxExecs) }

\* ParseInlineToolCall(content), and the iteration at which the loop reads the
\* response.  A content is put together from blanks in front, a word, blanks,
\* a payload (with what it is) and what follows it.
InterpretCalls ==
  LET Leads == {<<>>, <<SP>>, <<NL>>}
      Words == {<<>>, <<W("ls")>>, <<W("bash")>>, <<W("frob")>>, <<W("Done")>>}
      Payloads ==
        { [text |-> <<>>, is |-> "none"],
          [text |-> Obj(<<>>), is |-> "object"],
          [text |-> Obj(<<"\"cmd\":\"false\"">>), is |-> "object"],
          [text |-> <<W("{"), SP, W("\"path\":\"a.txt\""), SP, W(","), SP,
                      W("\"old\":\"x\""), SP, W("}")>>, is |-> "object"],
          [text |-> <<W("{"), NL, SP, SP, W("\"path\":\"a.txt\""), NL, W("}")>>,
           is |-> "object"],
          [text |-> <<W("["), W("]")>>, is |-> "array"],
          [text |-> <<W("\"x\"")>>, is |-> "scalar"],
          [text |-> Truncated, is |-> "malformed"],
          [text |-> <<W("{"), W("oops"), W("}")>>, is |-> "malformed"],
          [text |-> Obj(<<>>) \o Obj(<<>>), is |-> "two objects"],
          [text |-> Obj(<<>>) \o <<SP, W("ls")>> \o Obj(<<>>), is |-> "two calls"],
          [text |-> Obj(<<>>) \o <<NL, W("bash")>> \o Obj(<<"\"cmd\":\"false\"">>),
           is |-> "two calls"] }
      Trails == {<<>>, <<NL>>, <<SP, W("Done"), W(".")>>, <<NL, W("Done"), W(".")>>}
  IN { [fn |-> "ParseInlineToolCall", content |-> l \o w \o g \o p.text \o t,
        word |-> w, payload |-> p.is, trail |-> t, iteration |-> i] :
         l \in Leads, w \in Words, g \in Leads, p \in Payloads, t \in Trails,
         i \in {1, MaxToolIterations} }

\* the output of a shell command that prints 21 long lines, as ToolBash cuts it
GenOutput == ToolBash(JSONObject(Obj(<<"\"cmd\":\"./gen\"">>)), EmptyMap).res

\* CompactHistory(history, maxTokens).  A history is a first message, up to
\* MaxMiddle messages (small ones, Tool messages at, just over and well over
\* TruncatedResultSize characters, a long User message) and the last
\* RecentMessagesKeep messages: none at all (a short history), a small window
\* or a window of long results.
CompactCalls ==
  LET AssistantCall ==
        [role |-> "assistant", content |-> <<>>, tool_call_id |-> 0,
         tool_calls |-> <<[id |-> 1, name |-> "ls", arguments |-> Obj(<<>>)]>>]
      MiddleMessages ==
        { UserMessage(<<W("list files")>>),
          AssistantMessage(<<W("Done"), W(".")>>),
          AssistantCall,
          ToolMessage(1, ListingOne),
          ToolMessage(2, <<Opaque("out", TruncatedResultSize)>>),
          ToolMessage(3, <<Opaque("out", TruncatedResultSize + 1)>>),
          ToolMessage(4, <<Opaque("out", 400), NL, Opaque("put", 199)>>),
          ToolMessage(5, GenOutput),
          UserMessage(<<Opaque("paste", 600)>>) }
      FirstMessages ==
        { SystemMessage(AgentSystemPrompt),
          ToolMessage(9, <<Opaque("out", 600)>>) }
      TrailingWindows ==
        { <<>>,
          <<AssistantCall, ToolMessage(1, ListingOne), AssistantMessage(<<W("Done"), W(".")>>),
            UserMessage(<<W("list files")>>), AssistantCall,
            ToolMessage(6, <<Opaque("out", 600)>>)>>,
          <<AssistantCall, ToolMessage(7, GenOutput), AssistantCall, ToolMessage(7, GenOutput),
            AssistantCall, ToolMessage(8, GenOutput)>> }
      Budgets == {150, 700, DefaultContextTokens}
  IN { [fn |-> "CompactHistory", history |-> <<f>> \o m \o t, maxTokens |-> b] :
         f \in FirstMessages, m \in SeqsUpTo(MiddleMessages, MaxMiddle),
         t \in TrailingWindows, b \in Budgets }

\* a map of arguments as json.Unmarshal yields it, from <<key, value>> pairs
RECURSIVE Args(_)
Args(pairs) ==
  IF pairs = <<>> THEN EmptyMap
  ELSE (Head(pairs)[1] :> Head(pairs)[2]) @@ Args(Tail(pairs))

\* ToolEdit(args) on a directory that holds a.txt: files of up to MaxEditLines
\* lines "x" or "z" and the empty file; old is a line of the file, a word that
\* is not in it, or empty; all is absent, false or true.
EditCalls ==
  LET Files == (SeqsUpTo({W("x"), W("z")}, MaxEditLines) \ {<<>>}) \cup {<<W("")>>}
      Alls == {<<>>, <<<<"all", FALSE>>>>, <<<<"all", TRUE>>>>}
  IN { [fn |-> "ToolEdit",
        args |-> Args(<<<<"path", p>>, <<"old", o>>, <<"new", n>>>> \o a),
        fs |-> ("a.txt" :> f)] :
         p \in {"a.txt", "nosuch"}, o \in {"x", "q", ""}, n \in {"y", ""},
         a \in Alls, f \in Files }

\* ToolRead(args) without limit, with limit 0 or a negative limit, on a directory that holds
\* a.txt: files of one line up to MaxReadLines lines, line i being "l<i>", some
\* with a line wider than maxLineWidth and some ending in a line break (their
\* last line is empty); offset is absent, zero, negative, inside the file or
\* beyond its end.
ReadCalls ==
  LET Plain(n) == [i \in 1..n |-> W("l" \o ToString(i))]
      Wide(n) == [Plain(n) EXCEPT ![n] = Opaque("wide", maxLineWidth + 1)]
      Broken(n) == [Plain(n) EXCEPT ![n] = W("")]
      Sizes == {1, 2, defaultReadLimit - 1, defaultReadLimit, defaultReadLimit + 1,
                2 * defaultReadLimit, MaxReadLines}
      Files == {Plain(n) : n \in Sizes} \cup {Wide(n) : n \in Sizes}
               \cup {Broken(n) : n \in Sizes}
      Limits == {<<>>, <<<<"limit", 0>>>>, <<<<"limit", 0 - 1>>>>}
      Offsets == {<<>>} \cup {<<<<"offset", o>>>> : o \in {0, 0 - 2, 1, defaultReadLimit,
                                                          MaxReadLines + 5}}
  IN { [fn |-> "ToolRead", args |-> Args(<<<<"path", p>>>> \o l \o o), fs |-> ("a.txt" :> f)] :
         p \in {"a.txt", "nosuch"}, l \in Limits, o \in Offsets, f \in Files }

\* ToolGrep(args) on a directory of up to MaxGrepFiles files, each a line "z"
\* followed by 4, 5 or 6 lines "x"; the pattern matches the lines "x" or no
\* line at all.
GrepCalls ==
  LET File(hits) == <<W("z")>> \o [i \in 1..hits |-> W("x")]
      Dir(hs) == [p \in {PathOrder[i] : i \in 1..Len(hs)} |->
                    File(hs[CHOOSE i \in 1..Len(hs) : PathOrder[i] = p])]
  IN { [fn |-> "ToolGrep", args |-> Args(<<<<"pat", pat>>>>), fs |-> Dir(hs)] :
         pat \in {"x", "q"},
         hs \in SeqsUpTo({maxHitsPerFile - 1, maxHitsPerFile, maxHitsPerFile + 1},
                         MaxGrepFiles) }

\* the directories handed to ToolBash, ToolLs and ToolGlob: empty, a.txt alone,
\* or a.txt and b1.txt
SmallDirs ==
  {EmptyMap, ("a.txt" :> <<W("x"), W("x")>>),
   ("a.txt" :> <<W("x"), W("x")>>) @@ ("b1.txt" :> <<W("x")>>)}

\* ToolBash(args): the commands ShellRun knows, one it does not, and none
BashCalls ==
  LET Commands == {"", "false", "ls nosuch", "./gen", "./one", "./many", "./few", "echo",
                   "sleep 60", "./slow", "rm a.txt", "frob"}
  IN { [fn |-> "ToolBash", args |-> a, fs |-> d] :
         a \in {Args(<<<<"cmd", c>>>>) : c \in Commands} \cup {EmptyMap}, d \in SmallDirs }

\* ToolLs(args), ToolGlob(args), and ToolGrep(args) on the small directories
\* and with a pattern that does not compile
ListCalls ==
  LET Paths == {<<>>, <<<<"path", ".">>>>, <<<<"path", "nosuch">>>>}
  IN { [fn |-> "ToolLs", args |-> Args(p), fs |-> d] : p \in Paths, d \in SmallDirs }
     \cup { [fn |-> "ToolGlob", args |-> Args(pat \o p), fs |-> d] :
              pat \in {<<>>} \cup {<<<<"pat", g>>>> : g \in {"*.txt", "a.txt", "q", "["}},
              p \in Paths, d \in SmallDirs }
     \cup { [fn |-> "ToolGrep", args |-> Args(pat \o p), fs |-> d] :
              pat \in {<<>>} \cup {<<<<"pat", g>>>> : g \in {"x", "q", "["}},
              p \in Paths, d \in SmallDirs }

HelperCalls ==
  CoerceCalls \cup InterpretCalls \cup CompactCalls \cup EditCalls \cup ReadCalls
    \cup GrepCalls \cup BashCalls \cup ListCalls

InitHelpers ==
  /\ InitialModel
  /\ call \in HelperCalls
  /\ returned = NotReturned

CoerceReturns ==
  /\ call.fn = "CoerceAgentFinalContent"
  /\ ~returned.done
  /\ returned' = [done |-> TRUE,
                  content |-> CoerceAgentFinalContent(call.content, call.execs)]
  /\ UNCHANGED <<ui, inbox, pc, loc, fs, remote, turns, choices, obs, started, call, modals>>

\* the loop's reading of a response without structured tool calls: what
\* ParseInlineToolCall returns, where the loop goes and the text it would
\* return
InterpretReturns ==
  /\ call.fn = "ParseInlineToolCall"
  /\ ~returned.done
  /\ LET msg == [content |-> call.content, tool_calls |-> <<>>]
         next == Dispatch(call.iteration, msg)
     IN returned' = [done |-> TRUE,
                     inline |-> ParseInlineToolCall(call.content),
                     next |-> next,
                     appended |-> AssistantParam(msg),
                     content |-> IF next = "ceiling" THEN CeilingContent(msg)
                                 ELSE call.content]
  /\ UNCHANGED <<ui, inbox, pc, loc, fs, remote, turns, choices, obs, started, call, modals>>

\* history = CompactHistory(history, maxTokens), as the agent loop calls it at
\* the top of every iteration: on its own result from the second time on
CompactReturns ==
  /\ call.fn = "CompactHistory"
  /\ LET times == IF returned.done THEN returned.times ELSE 0
         history == IF returned.done THEN returned.history ELSE call.history
     IN /\ times < MaxCompactions
        /\ returned' = [done |-> TRUE, times |-> times + 1, given |-> history,
                        history |-> CompactHistory(history, call.maxTokens)]
  /\ UNCHANGED <<ui, inbox, pc, loc, fs, remote, turns, choices, obs, started, call, modals>>

\* the name ExecuteTool knows a primitive by
ToolName(fn) ==
  CASE fn = "ToolRead" -> "read"
    [] fn = "ToolEdit" -> "edit"
    [] fn = "ToolGrep" -> "grep"
    [] fn = "ToolBash" -> "bash"
    [] fn = "ToolLs" -> "ls"
    [] fn = "ToolGlob" -> "glob"

\* the result the loop records and summarises: the text, or the error's
ResultText(r) == IF r.isErr THEN ErrorPrefix \o r.errText ELSE r.res

\* a primitive of the sandbox called on a directory of its own, and the summary
\* of its result
ToolReturns ==
  /\ call.fn \in {"ToolEdit", "ToolGrep", "ToolBash", "ToolLs", "ToolGlob"}
  /\ ~returned.done
  /\ LET r == CASE call.fn = "ToolEdit" -> ToolEdit(call.args, call.fs)
                 [] call.fn = "ToolGrep" -> ToolGrep(call.args, call.fs)
                 [] call.fn = "ToolBash" -> ToolBash(call.args, call.fs)
                 [] call.fn = "ToolLs" -> ToolLs(call.args, call.fs)
                 [] call.fn = "ToolGlob" -> ToolGlob(call.args, call.fs)
     IN returned' = [done |-> TRUE, r |-> r,
                     summary |-> Summary(ToolName(call.fn), call.args, ResultText(r))]
  /\ UNCHANGED <<ui, inbox, pc, loc, fs, remote, turns, choices, obs, started, call, modals>>

\* the number a chunk of digits spells, as the reader of a result takes it
Number(c) == CHOOSE n \in 0..(MaxReadLines + 5) : ToString(n) = c.s

\* the continuation hint at the end of a read result: [has, more, offset]
Hint(res) ==
  IF Len(res) >= 7 /\ res[Len(res) - 5] = W("[... ")
                   /\ res[Len(res) - 1] = W(" to continue reading]")
  THEN [has |-> TRUE, more |-> Number(res[Len(res) - 4]), offset |-> Number(res[Len(res) - 2])]
  ELSE [has |-> FALSE, more |-> 0, offset |-> 0]

\* the numbered lines of a read result: [no, text]
Numbered(res) ==
  LET IsBar(p) == p > 1 /\ p + 2 <= Len(res) /\ res[p] = W("|") /\ res[p + 1] = SP
      entry(p) == [no |-> Number(res[p - 1]),
                   text |-> IF res[p + 3] = NL THEN <<res[p + 2]>>
                            ELSE <<res[p + 2], res[p + 3]>>]
  IN Concat([p \in 1..Len(res) |-> IF IsBar(p) THEN <<entry(p)>> ELSE <<>>])

\* ToolRead returns; a reader that is given a hint calls again with the
\* offset the hint names
ReadReturns ==
  /\ call.fn = "ToolRead"
  /\ returned.done => (~returned.r.isErr /\ Hint(returned.r.res).has)
  /\ LET args == IF returned.done
                 THEN ("offset" :> Hint(returned.r.res).offset) @@ call.args
                 ELSE call.args
         r == ToolRead(args, call.fs)
     IN returned' = [done |-> TRUE,
                     reads |-> IF returned.done THEN returned.reads + 1 ELSE 1,
                     offset |-> Num(args, "offset"),
                     r |-> r,
                     summary |-> Summary("read", args, ResultText(r)),
                     got |-> (IF returned.done THEN returned.got ELSE <<>>)
                             \o (IF r.isErr THEN <<>> ELSE Numbered(r.res))]
  /\ UNCHANGED <<ui, inbox, pc, loc, fs, remote, turns, choices, obs, started, call, modals>>

NextHelpers ==
  \/ ReadReturns
  \/ CoerceReturns
  \/ InterpretReturns
  \/ CompactReturns
  \/ ToolReturns

SpecHelpers == InitHelpers /\ [][NextHelpers]_vars

\* ------------------------------------------------------------------ properties
Last(s) == s[Len(s)]

\* the turn in loc ran the agent loop
AgentTurn == loc.iteration > 0

\* the command is about to return a ResponseMsg
Returning == pc = "deliver" /\ loc.ret.type = "ResponseMsg"

ToolStates == {"toolstart", "toolexec", "tooldone"}

InlineStates == {"inlinestart", "inlineexec", "inlinedone"}

\* the sandbox executions of the current round
ExecEvents == SelectSeq(obs.round, LAMBDA ev : ev.e = "exec")

NExec == Len(ExecEvents)

BeginsWithError(result) == result # <<>> /\ result[1] = W("error:")

\* every tool-call request of h is answered, in order, by the one Tool message
\* that bears its id
Paired(h) ==
  \A i \in 1..Len(h) : \A j \in 1..Len(h[i].tool_calls) :
    /\ i + j <= Len(h)
    /\ h[i + j].role = "tool"
    /\ h[i + j].tool_call_id = h[i].tool_calls[j].id
    /\ Cardinality({k \in 1..Len(h) : /\ h[k].role = "tool"
                                      /\ h[k].tool_call_id = h[i].tool_calls[j].id}) = 1

\* C1: in every history an agent-mode turn returns, each tool-call request of an
\* assistant message is answered by exactly one Tool message bearing its
\* tool_call_id, in request order.  The code breaks this at the iteration
\* ceiling: the last assistant message keeps its tool calls and the turn
\* returns without executing or answering them.
C1_EveryRequestAnswered == (Returning /\ AgentTurn) => Paired(loc.ret.History)

\* a turn that returns at the ceiling with structured calls left unanswered
C1_CeilingLeavesRequests ==
  /\ Returning
  /\ loc.iteration = MaxToolIterations
  /\ Last(loc.ret.History).tool_calls # <<>>

\* C2: in agent mode, against a model whose every response asks for a tool
\* call, the turn makes exactly MaxToolIterations completion calls and then
\* returns a ResponseMsg; no turn ever makes one call more.
C2_CeilingAfterFifteenCalls ==
  /\ obs.nCalls <= MaxToolIterations
  /\ AgentTurn => obs.nCalls = loc.iteration
  /\ (pc = "loop" /\ AgentTurn) => obs.nCalls < MaxToolIterations
  /\ (AgentTurn /\ obs.everyAsked /\ pc \in {"deliver", "idle"}) =>
       /\ obs.nCalls = MaxToolIterations
       /\ loc.ret.type = "ResponseMsg"

C2_AlwaysAskingTurnReturns ==
  /\ Returning
  /\ AgentTurn
  /\ obs.everyAsked
  /\ obs.nCalls = MaxToolIterations

\* the final text before coercion
RawFinal == IF AtCeiling(loc.iteration) THEN CeilingContent(loc.choice) ELSE loc.choice.content

\* C3: when an agent-mode turn returns and coercion replaced the model's final
\* text, the last Assistant message of the returned history carries the
\* returned text.  The code returns the coerced text but leaves the model's
\* own text in the history.
C3_FinalMessageCarriesCoercedText ==
  (Returning /\ AgentTurn /\ loc.ret.Content # RawFinal) =>
    Last(loc.ret.History).content = loc.ret.Content

\* the "list files" turn: ls by a structured call, then an answer coerced to
\* the listing
C3_ListFilesCoerced ==
  /\ Returning
  /\ AgentTurn
  /\ loc.ret.Content # RawFinal
  /\ Len(loc.ret.History) = 4
  /\ loc.ret.History[2].tool_calls # <<>>
  /\ loc.ret.History[3].role = "tool"

NoSystem(h) == \A i \in 1..Len(h) : h[i].role # "system"

\* C4: in both modes the System message is the first element of every list
\* sent to the completion client (and the only System message of it), and
\* neither a returned ResponseMsg's history nor the stored History holds a
\* System message, whatever the number of iterations and compactions.
C4_SystemFirstThenStripped ==
  /\ obs.sent # <<>> =>
       /\ obs.sent[1] = SystemMessage(loc.systemPrompt)
       /\ NoSystem(Tail(obs.sent))
  /\ loc.ret.type = "ResponseMsg" => NoSystem(loc.ret.History)
  /\ (inbox # <<>> /\ Head(inbox).type = "ResponseMsg") => NoSystem(Head(inbox).History)
  /\ NoSystem(History)

\* a turn returns a history in which CompactHistory rewrote a tool result
C4_ReturnedAfterCompaction ==
  /\ Returning
  /\ obs.sent[1].role = "system"
  /\ \E i \in 1..Len(loc.ret.History) :
       /\ loc.ret.History[i].role = "tool"
       /\ loc.ret.History[i].content[1] = W("[tool:")

\* the command holds an ErrMsg to return, or has returned it
ErrEnded == loc.ret.type = "ErrMsg"

\* the ErrMsg has been handled by Update
ErrHandled == ErrEnded /\ pc = "idle" /\ inbox = <<>>

\* C5: in both modes a completion call that fails or returns no choice ends the
\* turn with an ErrMsg: from then on the turn makes no completion call and runs
\* no tool, the ErrMsg is what the command returns, and once Update has handled
\* it the stored History is the History the turn started from (unless the user
\* reset the session in between).
C5_ErrorEndsTurn ==
  [][/\ (obs'.nCalls = obs.nCalls + 1 /\ remote'.last.kind \in {"error", "nochoice"}) =>
          (ErrEnded' /\ pc' = "deliver")
     /\ (ErrEnded /\ turns' = turns) =>
          /\ obs'.nCalls = obs.nCalls
          /\ obs'.round = obs.round
          /\ fs' = fs
          /\ loc' = loc
          /\ pc' \in {"deliver", "idle"}
          /\ (History' = History \/ obs'.reset)
     /\ (ErrEnded /\ pc = "deliver" /\ pc' = "idle") => inbox' = <<loc.ret>>
     /\ ErrHandled' =>
          /\ ~Loading'
          /\ Err' # ""
          /\ (History' = obs'.before \/ obs'.reset)
    ]_vars

\* an agent turn that failed after an earlier turn had stored a history
C5_ErrorAfterStoredHistory ==
  /\ ErrHandled
  /\ AgentTurn
  /\ ~obs.reset
  /\ History # <<>>
  /\ History = obs.before

BadCall(tc) == ~IsJSONObject(tc.arguments) \/ tc.name \notin KnownToolNames

\* C7: in a response with several structured calls, a call with malformed JSON
\* arguments or an unknown name runs no primitive and leaves the working
\* directory as it was (its result is an error text), every other call runs its
\* own primitive, and when the round ends every call of the response has been
\* executed, in request order.
C7_BadCallSkippedOthersRun ==
  [][/\ (pc = "toolexec" /\ pc' = "tooldone") =>
          LET tc == loc.choice.tool_calls[loc.idx]
          IN IF BadCall(tc)
             THEN /\ fs' = fs
                  /\ Last(obs'.round).primitive = ""
                  /\ BeginsWithError(Last(loc'.toolExecs).Result)
             ELSE /\ Last(obs'.round).primitive = tc.name
                  /\ Last(obs'.round).idx = loc.idx
     /\ (pc = "tooldone" /\ pc' = "loop") =>
          /\ Len(SelectSeq(obs'.round, LAMBDA ev : ev.e = "exec")) = Len(loc.choice.tool_calls)
          /\ \A i \in 1..Len(loc.choice.tool_calls) :
               LET ev == SelectSeq(obs'.round, LAMBDA e : e.e = "exec")[i]
               IN ev.idx = i /\ ev.name = loc.choice.tool_calls[i].name
    ]_vars

\* a round in which rejected calls were followed by a call that ran
C7_RejectedThenRun ==
  /\ pc = "loop"
  /\ \E i, j \in 1..Len(ExecEvents) :
       /\ i < j
       /\ ExecEvents[i].primitive = ""
       /\ ExecEvents[j].primitive # ""

\* the sandbox-level failure of the call name(argsJSON) in directory d, "" when
\* it does not fail there
Failure(name, argsJSON, d) ==
  IF ~IsJSONObject(argsJSON) \/ name \notin KnownToolNames THEN ""
  ELSE LET args == JSONObject(argsJSON)
           path == Str(args, "path")
           run == ShellRun(Str(args, "cmd"), d)
       IN CASE name \in {"read", "edit"} /\ path \notin DOMAIN d -> "missing file"
            [] name = "ls" /\ path \notin {"", "."} -> "missing file"
            [] name = "edit" /\ path \in DOMAIN d /\ CountOld(d[path], Str(args, "old")) = 0 ->
                 "edit not found"
            [] name = "edit" /\ path \in DOMAIN d /\ CountOld(d[path], Str(args, "old")) > 1
                 /\ ~Flag(args, "all") -> "edit ambiguous"
            [] name = "grep" /\ BadRegexp(Str(args, "pat")) -> "bad regex"
            [] name = "glob" /\ BadPattern(Str(args, "pat")) -> "bad pattern"
            [] name = "bash" /\ run.err # "" /\ TrimSpace(run.out) = <<>> -> "silent exit"
            [] name = "bash" /\ run.err # "" /\ TrimSpace(run.out) # <<>> -> "exit with output"
            [] OTHER -> ""

\* C8 (as first stated): every sandbox-level failure is delivered as a result
\* that begins with "error:".
C8_EveryFailureBeginsWithError ==
  [][(pc = "toolexec" /\ pc' = "tooldone") =>
       LET tc == loc.choice.tool_calls[loc.idx]
       IN Failure(tc.name, tc.arguments, fs) # "" =>
            BeginsWithError(Last(loc'.toolExecs).Result)
    ]_vars

\* C8: a missing file, a bad regex, an edit whose old text is absent or
\* ambiguous and a shell command that exits non-zero without output are
\* delivered as a tool result beginning with "error:"; a shell command that
\* exits non-zero with output is delivered as that output.  None ends the turn:
\* the result is appended as the call's Tool message, the next call of the
\* response follows, and after the last the loop goes back to the completion
\* call.
C8_FailuresAreResults ==
  [][/\ (pc = "toolexec" /\ pc' = "tooldone") =>
          LET tc == loc.choice.tool_calls[loc.idx]
              f == Failure(tc.name, tc.arguments, fs)
              result == Last(loc'.toolExecs).Result
          IN /\ f \notin {"", "exit with output"} => BeginsWithError(result)
             /\ f = "exit with output" =>
                  result = TrimSpace(ShellRun(Str(JSONObject(tc.arguments), "cmd"), fs).out)
             /\ Last(loc'.history) = ToolMessage(tc.id, result)
             /\ loc'.ret = loc.ret
     /\ (pc = "inlineexec" /\ pc' = "inlinedone") =>
          /\ Failure(loc.inline.name, loc.inline.argsJSON, fs) \notin {"", "exit with output"} =>
               BeginsWithError(Last(loc'.toolExecs).Result)
          /\ loc'.ret = loc.ret
     /\ pc = "tooldone" =>
          IF loc.idx < Len(loc.choice.tool_calls)
          THEN pc' \in {"tooldone", "toolstart"} /\ (pc' = "toolstart" => loc'.idx = loc.idx + 1)
          ELSE pc' \in {"tooldone", "loop"}
     /\ pc = "inlinedone" => pc' \in {"inlinedone", "loop"}
    ]_vars

\* after a round with failures of both kinds the loop made its next call
C8_NextCallAfterFailures ==
  /\ AgentTurn
  /\ obs.nCalls >= 2
  /\ \E i \in 1..Len(loc.toolExecs) : BeginsWithError(loc.toolExecs[i].Result)
  /\ \E i \in 1..Len(loc.toolExecs) :
       /\ loc.toolExecs[i].Name = "bash"
       /\ loc.toolExecs[i].Result[1] = W("ls:")

\* C9: the Assistant message appended from a response that reports tool calls
\* (structured, or an accepted inline call) has empty content whatever text
\* came alongside, and it is in the working history before the first tool of
\* the response is announced or executed: it stands right before the results
\* of the calls executed so far.
C9_ToolCallMessageEmptyAndFirst ==
  /\ pc \in ToolStates \cup InlineStates =>
       /\ Asks(loc.choice)
       /\ NExec < Len(loc.history)
       /\ loc.history[Len(loc.history) - NExec] =
            [role |-> "assistant", content |-> <<>>, tool_call_id |-> 0,
             tool_calls |-> loc.choice.tool_calls]
  /\ (Returning /\ AgentTurn /\ Asks(loc.choice)) =>
       /\ Last(loc.history).content = <<>>
       /\ Last(loc.history).tool_calls = loc.choice.tool_calls

\* the model's text came with a structured call and the call is being executed
C9_TextAlongsideCall ==
  /\ pc = "toolexec"
  /\ loc.choice.content # <<>>
  /\ loc.choice.tool_calls # <<>>
  /\ Last(loc.history).content = <<>>

Phases == <<"start", "exec", "done">>

\* the names of the calls of the current response, in request order
RoundCalls ==
  IF loc.choice.tool_calls # <<>>
  THEN [i \in 1..Len(loc.choice.tool_calls) |-> loc.choice.tool_calls[i].name]
  ELSE IF loc.inline.ok THEN <<loc.inline.name>> ELSE <<>>

\* C10: within a turn the calls of a response are executed one at a time in
\* request order: the events of a round are start, execution and completion of
\* call 1, then of call 2, and so on; whenever call k+1 is announced the
\* results of calls 1..k are the last k Tool messages of the history; the
\* ToolCallMsg is with the event loop before the sandbox runs, and the result
\* is recorded and appended before the ToolResultMsg is sent.
C10_OneCallAtATimeInOrder ==
  /\ \A j \in 1..Len(obs.round) :
       LET k == ((j - 1) \div 3) + 1
       IN /\ obs.round[j].e = Phases[((j - 1) % 3) + 1]
          /\ obs.round[j].idx = k
          /\ k <= Len(RoundCalls)
          /\ obs.round[j].name = RoundCalls[k]
  /\ pc \in {"toolstart", "inlinestart"} => Len(obs.round) = 3 * (loc.idx - 1)
  /\ pc \in {"toolexec", "inlineexec"} => Len(obs.round) = 3 * (loc.idx - 1) + 1
  /\ pc \in {"tooldone", "inlinedone"} => Len(obs.round) = 3 * (loc.idx - 1) + 2
  /\ (pc \in ToolStates \/ (pc = "loop" /\ loc.choice.tool_calls # <<>>)) =>
       LET h == loc.history
           n == Len(h)
           m == Len(loc.toolExecs)
       IN /\ NExec < n
          /\ NExec <= m
          /\ \A j \in 1..NExec :
               /\ loc.toolExecs[m - NExec + j].Name = loc.choice.tool_calls[j].name
               /\ h[n - NExec + j] =
                    ToolMessage(loc.choice.tool_calls[j].id, loc.toolExecs[m - NExec + j].Result)
  /\ pc = "loop" /\ loc.choice.tool_calls # <<>> => NExec = Len(loc.choice.tool_calls)
  /\ pc \in {"toolexec", "inlineexec"} =>
       \/ inbox # <<>> /\ Head(inbox).type = "ToolCallMsg" /\ Head(inbox).Name = RoundCalls[loc.idx]
       \/ inbox = <<>> /\ ExecutingTool = RoundCalls[loc.idx]
  /\ (inbox # <<>> /\ Head(inbox).type = "ToolResultMsg") =>
       /\ loc.toolExecs # <<>>
       /\ Head(inbox).Result = Last(loc.toolExecs).Result
       /\ Head(inbox).Name = Last(loc.toolExecs).Name

\* a round of several calls has been executed to its end
C10_LongRoundDone ==
  /\ pc = "loop"
  /\ Len(loc.choice.tool_calls) >= 7
  /\ Len(obs.round) = 3 * Len(loc.choice.tool_calls)

\* the text carries the truncation notice
HasNotice(text) == \E i \in 1..Len(text) : text[i] = Last(StoppedNotice)

\* the turn returns at the ceiling while its last response still asked for tools
CeilingReturn == Returning /\ AgentTurn /\ AtCeiling(loc.iteration) /\ Asks(loc.choice)

\* C11: whenever an agent-mode turn ends at the iteration ceiling while the last
\* response still asked for tool calls, the text returned to the caller
\* contains the notice "[Stopped after 15 tool iterations]".  The code appends
\* the notice and then passes the text through CoerceAgentFinalContent, which
\* replaces the whole text, notice included, by the last ls listing when the
\* model's text claims the directory is empty.
C11_CeilingTextCarriesNotice == CeilingReturn => HasNotice(loc.ret.Content)

\* a ceiling return whose text is the ls listing, without the notice
C11_NoticeDiscarded ==
  /\ CeilingReturn
  /\ ~HasNotice(loc.ret.Content)
  /\ loc.ret.Content[1] = W("Entries in the current directory:")

\* the entries an ls result lists: its non-blank lines without their
\* [FILE] / [DIR] tag
Entries(lsResult) ==
  LET lines == SplitLines(lsResult)
      entry(line) == TrimSpace(TrimPrefix(TrimPrefix(TrimSpace(line), "[FILE]"), "[DIR]"))
  IN IF TrimSpace(lsResult) = EmptyDirectory THEN <<>>
     ELSE SelectSeq([i \in 1..Len(lines) |-> entry(lines[i])], LAMBDA e : e # <<>>)

\* the ls records among execs
LsRecords(execs) == SelectSeq(execs, LAMBDA r : r.Name = "ls")

\* C12: when the most recent ls record of the turn lists at least one entry
\* and the final text is empty, is an inline tool call, or claims that the
\* directory is empty or has no files, CoerceAgentFinalContent discards the
\* text and returns the line "Entries in the current directory:" followed by
\* one line "- <entry>" per entry of that ls result, in order.
C12_CoercionListsLastLs ==
  (/\ returned.done
   /\ call.fn = "CoerceAgentFinalContent"
   /\ call.is \in {"empty", "inline", "claim"}
   /\ LsRecords(call.execs) # <<>>
   /\ Entries(Last(LsRecords(call.execs)).Result) # <<>>) =>
    LET entries == Entries(Last(LsRecords(call.execs)).Result)
        lines == SplitLines(returned.content)
    IN /\ Len(lines) = 1 + Len(entries)
       /\ lines[1] = <<W("Entries in the current directory:")>>
       /\ \A i \in 1..Len(entries) : lines[i + 1] = <<W("-"), SP>> \o entries[i]

\* "The directory is empty." after an older ls of another directory and a last
\* ls that returned "[FILE] a.txt\n[DIR] sub/": the answer lists a.txt and sub/
C12_EmptyClaimOverruled ==
  /\ returned.done
  /\ call.fn = "CoerceAgentFinalContent"
  /\ call.content = <<W("The"), SP, W("directory is empty"), W(".")>>
  /\ call.execs = <<ExecRecord("ls", ListingOne), ExecRecord("ls", ListingTwo)>>
  /\ returned.content = <<W("Entries in the current directory:"), NL,
                          W("-"), SP, W("a.txt"), NL, W("-"), SP, W("sub/")>>

\* the number of Tool messages s begins with
RECURSIVE LeadingTools(_)
LeadingTools(s) ==
  IF s # <<>> /\ Head(s).role = "tool" THEN 1 + LeadingTools(Tail(s)) ELSE 0

\* s is zero or more groups of one Assistant tool-call message and its Tool
\* messages, then one Assistant message that requests no tool call
RECURSIVE GroupsThenFinal(_)
GroupsThenFinal(s) ==
  IF s = <<>> \/ Head(s).role # "assistant" THEN FALSE
  ELSE IF Head(s).tool_calls = <<>> THEN Len(s) = 1
  ELSE LET k == LeadingTools(Tail(s))
       IN k >= 1 /\ GroupsThenFinal(SubSeq(s, k + 2, Len(s)))

\* h is before, extended by one User message, groups and a final message
ExtendsByOneTurn(before, h) ==
  /\ Len(h) >= Len(before) + 2
  /\ SubSeq(h, 1, Len(before)) = before
  /\ h[Len(before) + 1].role = "user"
  /\ GroupsThenFinal(SubSeq(h, Len(before) + 2, Len(h)))

\* C13: every turn that returns a ResponseMsg extends the stored history by
\* exactly one User message, then zero or more groups of one Assistant
\* tool-call message followed by its Tool messages, then exactly one final
\* Assistant message that requests no tool call.  The code breaks this twice:
\* an inline call is recorded as an Assistant message without tool calls
\* followed by an Assistant message carrying the result, and a turn that ends
\* at the iteration ceiling returns a history whose last message still
\* requests tool calls.
C13_TurnExtendsHistory ==
  (Returning /\ ~obs.reset) => ExtendsByOneTurn(obs.before, loc.ret.History)

\* a turn returns at the ceiling: its history ends with a tool-call message
\* that no final Assistant message follows
C13_EndsWithToolCallMessage ==
  /\ Returning
  /\ ~obs.reset
  /\ Len(loc.ret.History) = 2 * MaxToolIterations
  /\ Last(loc.ret.History).role = "assistant"
  /\ Last(loc.ret.History).tool_calls # <<>>
  /\ loc.ret.History[Len(loc.ret.History) - 1].role = "tool"

\* the turn took the chat branch: it called the endpoint outside the agent loop
ChatTurn == obs.nCalls > 0 /\ loc.iteration = 0

\* C14: a turn that takes the chat branch makes exactly one completion call,
\* advertises no tools and executes no tool, also when the response content is
\* an inline tool call or the response carries structured tool calls; when it
\* returns a ResponseMsg the returned history is the prior history followed by
\* the user message and exactly one assistant message, the response's.
C14_ChatIsOneCallNoTools ==
  ChatTurn =>
    /\ obs.nCalls = 1
    /\ ~obs.tools
    /\ obs.round = <<>>
    /\ loc.toolExecs = <<>>
    /\ pc \in {"deliver", "idle"}
    /\ ExecutingTool = ""
    /\ loc.ret.type = "ResponseMsg" =>
         /\ loc.ret.History =
              SubSeq(loc.history, 2, Len(loc.history))
                \o <<[role |-> "assistant", content |-> loc.ret.Content,
                      tool_call_id |-> 0, tool_calls |-> Last(loc.ret.History).tool_calls]>>
         /\ loc.ret.Content = remote.last.content
         /\ Len(Last(loc.ret.History).tool_calls) = Len(remote.last.calls)
         /\ Last(loc.history) = UserMessage(<<W(loc.input)>>)
         /\ ~obs.reset =>
              SubSeq(loc.ret.History, 1, Len(loc.ret.History) - 2) = obs.before

\* a chat turn after a stored turn returns a response that carries structured
\* tool calls
C14_ChatResponseWithToolCalls ==
  /\ Returning
  /\ ChatTurn
  /\ obs.before # <<>>
  /\ remote.last.calls # <<>>

RECURSIVE SumPrompt(_)
SumPrompt(usage) == IF usage = <<>> THEN 0 ELSE Head(usage).prompt + SumPrompt(Tail(usage))

RECURSIVE SumCompletion(_)
SumCompletion(usage) ==
  IF usage = <<>> THEN 0 ELSE Head(usage).completion + SumCompletion(Tail(usage))

\* Update takes the turn's ResponseMsg
TakesResponse == inbox # <<>> /\ Head(inbox).type = "ResponseMsg" /\ inbox' = <<>>

\* C15: an agent-mode turn that returns a ResponseMsg after n completion calls
\* returns as PromptTokens and CompletionTokens the sums of the usage the
\* endpoint reported with its n responses, those that only asked for tools
\* included, and when Update takes the ResponseMsg the session counters
\* InputTokens and OutputTokens grow by exactly those sums.
C15_UsageSummedOverTurn ==
  [][/\ (Returning' /\ AgentTurn') =>
          /\ Len(obs'.usage) = obs'.nCalls
          /\ loc'.ret.PromptTokens = SumPrompt(obs'.usage)
          /\ loc'.ret.CompletionTokens = SumCompletion(obs'.usage)
     /\ (TakesResponse /\ AgentTurn) =>
          /\ Head(inbox) = loc.ret
          /\ InputTokens' = InputTokens + SumPrompt(obs.usage)
          /\ OutputTokens' = OutputTokens + SumCompletion(obs.usage)
    ]_vars

\* Update has taken the response of an agent turn of three calls or more with
\* differing usage, the first of which asked for tools
C15_CountersAfterToolTurn ==
  /\ pc = "idle"
  /\ inbox = <<>>
  /\ ~Loading
  /\ AgentTurn
  /\ loc.ret.type = "ResponseMsg"
  /\ obs.nCalls >= 3
  /\ loc.toolExecs # <<>>
  /\ obs.usage[1] # Last(obs.usage)
  /\ InputTokens = SumPrompt(obs.usage)
  /\ OutputTokens = SumCompletion(obs.usage)

\* the content is, once trimmed, one known tool name followed by one JSON
\* object and nothing else
WholeInlineCall(c) ==
  /\ c.word # <<>>
  /\ c.word[1].s \in KnownToolNames
  /\ c.payload = "object"
  /\ TrimSpace(c.trail) = <<>>

\* C16: ParseInlineToolCall accepts a content if and only if the whole trimmed
\* content is one known tool name followed by one JSON object and nothing
\* else; whenever it rejects, the loop treats the response as final text and
\* hands nothing to the sandbox.  The code rejects a known tool name followed
\* by a JSON object written on several lines: the "." of InlineToolCallRE
\* does not match a line break.
C16_AcceptsExactlyWholeInlineCalls ==
  (returned.done /\ call.fn = "ParseInlineToolCall") =>
    /\ returned.inline.ok <=> WholeInlineCall(call)
    /\ ~returned.inline.ok =>
         /\ returned.next \in {"final", "ceiling"}
         /\ returned.content = call.content
         /\ returned.appended.content = call.content

\* "ls", a space and an object written on three lines: rejected, and returned
\* to the user as the final text
C16_ObjectOnSeveralLinesRejected ==
  /\ returned.done
  /\ call.fn = "ParseInlineToolCall"
  /\ call.content = <<W("ls"), SP, W("{"), NL, SP, SP, W("\"path\":\"a.txt\""), NL, W("}")>>
  /\ IsJSONObject(SubSeq(call.content, 3, Len(call.content)))
  /\ ~returned.inline.ok
  /\ returned.next = "final"

\* CompactHistory has returned
Compacted == returned.done /\ call.fn = "CompactHistory"

\* C17: CompactHistory is idempotent: compacting a compacted history with the
\* same budget returns it unchanged, also when it is still over the budget.
\* The code rewrites a rewritten Tool message again: TruncateToolResult
\* returns more than TruncatedResultSize characters.
C17_CompactHistoryIdempotent ==
  (Compacted /\ returned.times >= 2) => returned.history = returned.given

\* the second compaction rewrote a Tool message the first had already rewritten
C17_RewrittenTwice ==
  /\ Compacted
  /\ returned.times = 2
  /\ \E i \in 1..Len(returned.history) :
       /\ returned.given[i] # call.history[i]
       /\ returned.history[i] # returned.given[i]
       /\ returned.given[i].content[1] = W("[tool:")
       /\ SubSeq(returned.history[i].content, 7, 12) = SubSeq(returned.given[i].content, 1, 6)

\* the messages of the middle window of h
MiddleWindow(h) == 2..(Len(h) - RecentMessagesKeep)

\* a Tool message with more than TruncatedResultSize characters
LongToolResult(msg) == msg.role = "tool" /\ TextLen(msg.content) > TruncatedResultSize

\* C18: for a history of more than RecentMessagesKeep+1 messages CompactHistory
\* returns as many messages in the same order (each with the role, the tool
\* calls and the tool_call_id it had), the first message and the last
\* RecentMessagesKeep messages identical to the input's; this also holds of
\* the result of repeated compactions against the history first given.
C18_CompactionKeepsFrame ==
  (Compacted /\ Len(call.history) > RecentMessagesKeep + 1) =>
    LET h == call.history
        r == returned.history
    IN /\ Len(r) = Len(h)
       /\ \A i \in 1..Len(h) :
            /\ r[i].role = h[i].role
            /\ r[i].tool_call_id = h[i].tool_call_id
            /\ r[i].tool_calls = h[i].tool_calls
       /\ r[1] = h[1]
       /\ \A i \in (Len(h) - RecentMessagesKeep + 1)..Len(h) : r[i] = h[i]

\* two compactions of a history whose first and last messages are long Tool
\* results rewrote a Tool message of the middle window and left those alone
C18_MiddleRewrittenFrameKept ==
  /\ Compacted
  /\ returned.times = 2
  /\ Len(call.history) = RecentMessagesKeep + 1 + MaxMiddle
  /\ LongToolResult(call.history[1])
  /\ LongToolResult(Last(call.history))
  /\ \E i \in MiddleWindow(call.history) :
       /\ returned.history[i] # call.history[i]
       /\ returned.history[i].tool_call_id = call.history[i].tool_call_id
       /\ returned.history[i].tool_call_id # 0

\* the estimated cost: each message's serialized length over CharsPerToken,
\* summed
Cost(h) == SumSeq([i \in 1..Len(h) |-> JSONLen(h[i]) \div CharsPerToken])

\* C19: CompactHistory returns its input unchanged whenever the estimated cost
\* is under the budget, and whenever the history has at most
\* RecentMessagesKeep+1 messages, whatever its cost.
C19_UnderBudgetOrShortUnchanged ==
  (/\ Compacted
   /\ \/ Cost(returned.given) < call.maxTokens
      \/ Len(returned.given) <= RecentMessagesKeep + 1) =>
    returned.history = returned.given

\* a history under the budget with a long Tool result in its middle window
\* came back unchanged
C19_UnderBudgetLeftAlone ==
  /\ Compacted
  /\ returned.times = 1
  /\ Len(call.history) > RecentMessagesKeep + 1
  /\ Cost(call.history) < call.maxTokens
  /\ LongToolResult(call.history[2])
  /\ returned.history = call.history

\* C20: when CompactHistory rewrites, the only messages whose content changes
\* are Tool messages of the middle window with more than TruncatedResultSize
\* characters, and each rewritten content is strictly shorter than it was.
\* The code makes a Tool result of 501 to 518 characters longer: the rewritten
\* form adds "[tool: <n> lines] " and "..." to the first 500 characters.
C20_OnlyLongToolResultsShrink ==
  Compacted =>
    \A i \in 1..Len(returned.given) :
      returned.history[i] # returned.given[i] =>
        /\ i \in MiddleWindow(returned.given)
        /\ LongToolResult(returned.given[i])
        /\ TextLen(returned.history[i].content) < TextLen(returned.given[i].content)

\* a Tool result of 501 characters was rewritten to one of 519
C20_RewrittenLonger ==
  /\ Compacted
  /\ returned.times = 1
  /\ \E i \in MiddleWindow(call.history) :
       /\ TextLen(call.history[i].content) = TruncatedResultSize + 1
       /\ TextLen(returned.history[i].content) = TruncatedResultSize + 19

\* the lines of a file that are the word old
Occurrences(lines, old) == {i \in 1..Len(lines) : lines[i] = W(old)}

\* how often old occurs in a file: an empty old occurs before every character
\* and at the end
Occurs(lines, old) ==
  IF old = "" THEN TextLen(lines) + Len(lines) ELSE Cardinality(Occurrences(lines, old))

\* ToolEdit has returned from a call on an existing file
Edited == call.fn = "ToolEdit" /\ returned.done /\ Str(call.args, "path") \in DOMAIN call.fs

\* C25: edit leaves the file unmodified and returns a textual error whenever
\* old is not found, or old occurs n >= 2 times and all is not set (the error
\* then names n); otherwise, with all unset and exactly one occurrence, exactly
\* that occurrence is replaced, and with all=true every occurrence is replaced.
C25_EditReplacesOrRefuses ==
  Edited =>
    LET path == Str(call.args, "path")
        old == Str(call.args, "old")
        new == Str(call.args, "new")
        all == "all" \in DOMAIN call.args /\ call.args["all"]
        before == call.fs[path]
        at == Occurrences(before, old)
        n == Occurs(before, old)
        r == returned.r
    IN /\ ~r.isErr
       /\ DOMAIN r.fs = DOMAIN call.fs
       /\ IF n = 0 \/ (n >= 2 /\ ~all)
          THEN /\ r.fs = call.fs
               /\ BeginsWithError(r.res)
               /\ n >= 2 =>
                    r.res = ErrorPrefix \o
                      <<W("old_string appears " \o ToString(n)
                          \o " times, must be unique (use all=true)")>>
          ELSE /\ r.res = <<W("ok")>>
               /\ old # "" =>
                    /\ Len(r.fs[path]) = Len(before)
                    /\ \A i \in 1..Len(before) :
                         r.fs[path][i] =
                           IF i \in at /\ (all \/ \A j \in at : i <= j) THEN W(new)
                           ELSE before[i]
               /\ (old = "" /\ n = 1) => r.fs[path] = <<W(new)>>

\* old occurs twice, all is not given: the edit is refused with "appears 2 times"
C25_TwoOccurrencesRefused ==
  /\ Edited
  /\ "all" \notin DOMAIN call.args
  /\ Cardinality(Occurrences(call.fs["a.txt"], Str(call.args, "old"))) = 2
  /\ returned.r.fs = call.fs
  /\ returned.r.res =
       ErrorPrefix \o <<W("old_string appears 2 times, must be unique (use all=true)")>>

\* ToolRead has returned from a call on an existing file
HasRead == call.fn = "ToolRead" /\ returned.done /\ ~returned.r.isErr

\* a line of the file as a read shows it
AsShown(line) ==
  IF line.n > maxLineWidth THEN <<[s |-> line.s, n |-> maxLineWidth], W("...")>>
  ELSE <<line>>

\* C26: read with limit unset or zero returns at most 200 lines, each prefixed
\* with its 1-based line number in the file; the continuation hint is appended
\* exactly when lines remain after the last returned line, with N the number
\* of remaining lines, and a following read with offset=X starts at the first
\* line not yet returned, so that following the hints from offset 0 returns
\* every line of the file exactly once, in order, and ends with a result
\* without hint.
C26_ReadPagesCoverFile ==
  HasRead =>
    LET lines == call.fs[Str(call.args, "path")]
        total == Len(lines)
        start == IF returned.offset < 0 THEN 0
                 ELSE IF returned.offset > total THEN total ELSE returned.offset
        shown == Numbered(returned.r.res)
        hint == Hint(returned.r.res)
        last == start + Len(shown)
        got == returned.got
    IN /\ Len(shown) <= defaultReadLimit
       /\ Len(shown) = IF total - start > defaultReadLimit THEN defaultReadLimit
                       ELSE total - start
       /\ \A i \in 1..Len(shown) :
            shown[i].no = start + i /\ shown[i].text = AsShown(lines[start + i])
       /\ hint.has <=> last < total
       /\ hint.has => (hint.more = total - last /\ hint.offset = last)
       /\ Num(call.args, "offset") = 0 =>
            /\ returned.offset = Len(got) - Len(shown)
            /\ \A i \in 1..Len(got) : got[i].no = i /\ got[i].text = AsShown(lines[i])
            /\ Len(got) = last
            /\ returned.reads * defaultReadLimit < total + defaultReadLimit
            /\ ~hint.has => Len(got) = total

\* three reads from offset 0, the first two with a hint, have returned the
\* 401 lines of a file
C26_ThreeReadsToTheEnd ==
  /\ HasRead
  /\ Num(call.args, "offset") = 0
  /\ returned.reads = 3
  /\ ~Hint(returned.r.res).has
  /\ Len(returned.got) = 2 * defaultReadLimit + 1
  /\ Len(call.fs["a.txt"]) = 2 * defaultReadLimit + 1
  /\ returned.offset = 2 * defaultReadLimit

\* ToolGrep has returned
Grepped == call.fn = "ToolGrep" /\ returned.done /\ ~returned.r.isErr

LimitedNotice ==
  W("[Results limited. Use a more specific pattern or path to narrow search]")

\* the hit lines of a grep result that name the file path
HitsIn(res, path, lines) ==
  {i \in 1..Len(res) :
     \E l \in 1..Len(lines) : res[i] = W(path \o ":" \o ToString(l) \o ":")}

\* the lines of a file the pattern matches
Matching(lines, pat) == {l \in 1..Len(lines) : MatchString(pat, lines[l])}

\* C27: for every directory tree and pattern, a grep result contains at most
\* maxGrepHits (30) hit lines in total and at most maxHitsPerFile (5) hit lines
\* per file, and the 'Results limited' notice is appended whenever one of the
\* two caps stopped hits from being collected.  The code tests the total only
\* after a hit that is not the fifth of its file: a result can hold 31 hits.
C27_GrepHitsCapped ==
  Grepped =>
    LET res == returned.r.res
        pat == Str(call.args, "pat")
        shown(p) == Cardinality(HitsIn(res, p, call.fs[p]))
        total == SumSeq([i \in 1..Cardinality(DOMAIN call.fs) |-> shown(PathOrder[i])])
        all == SumSeq([i \in 1..Cardinality(DOMAIN call.fs) |->
                         Cardinality(Matching(call.fs[PathOrder[i]], pat))])
    IN /\ total <= maxGrepHits
       /\ \A p \in DOMAIN call.fs : shown(p) <= maxHitsPerFile
       /\ total < all => Last(res) = LimitedNotice

\* six files with five hits each and a seventh with one: 31 hit lines
C27_ThirtyOneHits ==
  /\ Grepped
  /\ Cardinality(DOMAIN call.fs) = 7
  /\ \A p \in DOMAIN call.fs :
       Cardinality(HitsIn(returned.r.res, p, call.fs[p])) =
         IF p = PathOrder[7] THEN 1 ELSE maxHitsPerFile
  /\ CountNL(returned.r.res) = maxGrepHits + 1
  /\ Last(returned.r.res) = LimitedNotice

\* ToolBash has returned
Bashed == call.fn = "ToolBash" /\ returned.done

\* what the command printed
Printed == ShellRun(Str(call.args, "cmd"), call.fs).out

\* the truncation markers of ToolBash with the line breaks around them
Markers ==
  {<<NL, W("[... output truncated]")>>}
    \cup {<<NL, NL, W("[... " \o ToString(k) \o " lines truncated ...]"), NL, NL>> : k \in 1..40}

\* the length of the marker in a result, 0 when it has none
MarkerLen(res) ==
  IF \E m \in Markers : \E i \in 1..Len(res) : res[i] = m[Len(m) \div 2 + 1]
  THEN TextLen(CHOOSE m \in Markers : \E i \in 1..Len(res) : res[i] = m[Len(m) \div 2 + 1])
  ELSE 0

\* C28: the text returned by the bash tool is bounded independently of the
\* size of the command's output: for every output it is at most maxBashOutput
\* (4000) characters plus the length of the truncation marker.  The code keeps
\* ten lines from either end of an output of more than twenty lines, however
\* long those lines are.
C28_BashResultBounded ==
  Bashed => TextLen(returned.r.res) <= maxBashOutput + MarkerLen(returned.r.res)

\* 21 lines of LongLine characters: the result keeps 20 of them
C28_TwentyLongLinesKept ==
  /\ Bashed
  /\ Str(call.args, "cmd") = "./gen"
  /\ CountNL(Printed) = 21
  /\ MarkerLen(returned.r.res) > 0
  /\ TextLen(returned.r.res) > 20 * LongLine

\* the directory a call names, "." when it names none
Root == IF Str(call.args, "path") = "" THEN "." ELSE Str(call.args, "path")

\* the files under the directory or file a call names
Under == {p \in DOMAIN call.fs : Root \in {".", p}}

\* C29: a successful result of ls, glob, grep or bash is never the empty
\* string: an empty directory yields '(empty directory)', glob and grep
\* without matches yield 'none' (not an error), a command with no output and
\* exit status zero yields '(empty)', and a command with no output and
\* non-zero exit yields the error text.
C29_SuccessNeverEmpty ==
  (call.fn \in {"ToolLs", "ToolGlob", "ToolGrep", "ToolBash"} /\ returned.done) =>
    LET r == returned.r
        pat == Str(call.args, "pat")
        run == ShellRun(Str(call.args, "cmd"), call.fs)
    IN /\ ~r.isErr => (r.res # <<>> /\ \E i \in 1..Len(r.res) : r.res[i].n > 0)
       /\ (call.fn = "ToolLs" /\ Root = "." /\ DOMAIN call.fs = {}) =>
            (~r.isErr /\ r.res = <<W("(empty directory)")>>)
       /\ (call.fn = "ToolGlob" /\ pat \notin {"", "["}
             /\ (Root # "." \/ \A p \in DOMAIN call.fs : p # pat /\ pat # "*.txt")) =>
            (~r.isErr /\ r.res = <<W("none")>>)
       /\ (call.fn = "ToolGrep" /\ pat # "["
             /\ \A p \in Under : \A l \in 1..Len(call.fs[p]) : pat # "" /\ call.fs[p][l] # W(pat)) =>
            (~r.isErr /\ r.res = <<W("none")>>)
       /\ (call.fn = "ToolBash" /\ \A i \in 1..Len(run.out) : IsSpace(run.out[i])) =>
            /\ ~r.isErr
            /\ r.res = IF run.err = "" THEN <<W("(empty)")>>
                       ELSE <<W("error:"), SP, W(run.err)>>

\* a command without output that exits with status 1
C29_SilentFailureReported ==
  /\ Bashed
  /\ Str(call.args, "cmd") = "false"
  /\ Printed = <<>>
  /\ returned.r.res = <<W("error:"), SP, W("exit status 1")>>

\* the SendMessage commands that were started and whose ResponseMsg or ErrMsg
\* has not been handled
InFlight == (IF pc # "idle" \/ inbox # <<>> THEN 1 ELSE 0) + Len(started)

\* C22: at most one turn is in flight per session at any time: from the moment
\* Enter starts a turn until that turn's ResponseMsg or ErrMsg has been handled,
\* no sequence of key events (opening the history modal and loading a chat, or
\* resetting the session, included) can start a second SendMessage.  Loading
\* a chat clears Loading, and the next Enter starts a second command.
C22_OneTurnInFlight == InFlight <= 1

\* Enter has started a second command while the first is in its agent loop
C22_SecondCommandStarted ==
  /\ Len(started) = 1
  /\ pc \notin {"idle", "deliver"}
  /\ Loading
  /\ turns = 1

\* the user reset the session or loaded a chat while the turn in loc, an
\* agent-mode turn, was in flight
Aborted == obs.reset /\ AgentTurn

\* C23: when the user aborts an in-flight agent-mode turn (Ctrl+N, or loading
\* another chat), the turn issues no further tool calls after the abort, and
\* nothing of the aborted turn is saved as a successful turn: no assistant
\* message of that turn is persisted and the session history does not receive
\* that turn's messages.  The command knows of no abort: it runs to its end
\* and Update takes its ResponseMsg like any other.
C23_AbortedTurnLeavesNoTrace ==
  [][/\ Aborted => Len(loc'.toolExecs) <= Len(loc.toolExecs)
     /\ (Aborted /\ TakesResponse) => (History' = History /\ db' = db)
    ]_vars

\* a turn that ran tools was aborted by loading a chat; its history is the
\* session's and its answer the last row of the loaded chat
C23_AbortedTurnStored ==
  /\ Aborted
  /\ pc = "idle"
  /\ inbox = <<>>
  /\ loc.ret.type = "ResponseMsg"
  /\ loc.toolExecs # <<>>
  /\ History = loc.ret.History
  /\ CurrentChatID # 0
  /\ Last(db.rows) = [chat |-> CurrentChatID, role |-> "assistant", content |-> loc.ret.Content]

\* C21: the Context Compactor is invoked before every remote call: in chat
\* mode and in agent mode alike, every message list sent to the completion
\* client is the output of CompactHistory applied to the working history after
\* the last message was appended.  The chat branch sends its history as it is.
C21_EveryCallSendsCompactedHistory ==
  [][obs'.nCalls = obs.nCalls + 1 =>
       obs'.sent = CompactHistory(loc.history, GetMaxContextTokens)]_vars

\* a chat turn has sent a history over the budget with a long Tool result in
\* its middle window, which CompactHistory would have rewritten
C21_ChatSentUncompacted ==
  /\ ChatTurn
  /\ obs.sent = loc.history
  /\ EstimateHistoryTokens(obs.sent) >= GetMaxContextTokens
  /\ \E i \in 2..(Len(obs.sent) - RecentMessagesKeep) : LongToolResult(obs.sent[i])
  /\ obs.sent # CompactHistory(obs.sent, GetMaxContextTokens)

\* the ResponseMsg and ErrMsg among the messages of q
Finals(q) == Cardinality({i \in 1..Len(q) : q[i].type \in {"ResponseMsg", "ErrMsg"}})

\* Update takes the turn's ResponseMsg or ErrMsg
TakesFinal == inbox # <<>> /\ Head(inbox).type \in {"ResponseMsg", "ErrMsg"} /\ inbox' = Tail(inbox)

\* C24: every turn terminates: when each completion call and each tool
\* execution returns, a started turn makes at most MaxToolIterations completion
\* calls and produces exactly one ResponseMsg or ErrMsg, which reaches Update,
\* and once Update has handled that message Loading is false.
C24_EveryTurnTerminates ==
  /\ [](obs.nCalls <= MaxToolIterations)
  /\ [][/\ Finals(inbox') > Finals(inbox) =>
            (pc = "deliver" /\ pc' = "idle" /\ turns' = turns /\ Finals(inbox') = 1)
        /\ TakesFinal => ~Loading'
       ]_vars
  /\ \A n \in 1..MaxChoices :
       (turns = n /\ pc # "idle") ~> (turns = n /\ pc = "idle" /\ inbox = <<>> /\ ~Loading)

\* the first turn made all its completion calls, returned the ceiling's
\* ResponseMsg and Update has handled it
C24_CeilingTurnHandled ==
  /\ turns = 1
  /\ pc = "idle"
  /\ inbox = <<>>
  /\ ~Loading
  /\ obs.nCalls = MaxToolIterations
  /\ loc.ret.type = "ResponseMsg"

\* the structured call the loop is at is a bash call
BashCall(tc) == tc.name = "bash" /\ IsJSONObject(tc.arguments)

\* what sh did with the command of bash call tc in working directory d
RunOf(tc, d) == ShellRun(Str(JSONObject(tc.arguments), "cmd"), d)

\* the loop is about to execute a bash call whose command exceeds the timeout
AtTimedOutCall ==
  /\ pc = "toolexec"
  /\ BashCall(loc.choice.tool_calls[loc.idx])
  /\ RunOf(loc.choice.tool_calls[loc.idx], fs).err = Killed

\* the last call the turn recorded is a bash call of a command that exceeds the
\* timeout, with the output it had printed for a result, or the error's text
\* when it had printed nothing
TimedOutRecorded ==
  /\ loc.toolExecs # <<>>
  /\ LET e == Last(loc.toolExecs)
         cmd == Str(JSONObject(e.Args), "cmd")
     IN /\ e.Name = "bash"
        /\ cmd \in {"./slow", "sleep 60"}
        /\ e.Result = (IF cmd = "./slow" THEN <<W("partial")>>
                       ELSE ErrorPrefix \o <<W(Killed)>>)

C31_ReadNeverCrashes ==
  (call.fn = "ToolRead" /\ returned.done) => ~Crashed(returned.r)

\* a read of an existing file with a negative limit has sliced lines[start:end]
\* with end below start
C31_NegativeLimitPanics ==
  /\ call.fn = "ToolRead"
  /\ returned.done
  /\ Str(call.args, "path") \in DOMAIN call.fs
  /\ Num(call.args, "limit") < 0
  /\ Crashed(returned.r)
  /\ returned.r.errText = SliceBounds

\* C32: after a session reset (Ctrl+N) or a chat reload performed while a turn
\* is in flight, the later arrival of that turn's ResponseMsg does not change
\* the new session: History stays the empty or reloaded history, and the token
\* counters do not receive the old turn's values.
C32_LateResponseLeavesNewSession ==
  [][(obs.reset /\ TakesResponse) =>
       /\ History' = History
       /\ InputTokens' = InputTokens
       /\ OutputTokens' = OutputTokens
       /\ ContextTokens' = ContextTokens
    ]_vars

\* the session was reset while its first turn was in flight; the turn's
\* ResponseMsg has been handled and the new session, which has no chat yet,
\* holds the old turn's history and usage
C32_ResetSessionHoldsOldTurn ==
  /\ obs.reset
  /\ turns = 1
  /\ pc = "idle"
  /\ inbox = <<>>
  /\ loc.ret.type = "ResponseMsg"
  /\ CurrentChatID = 0
  /\ History = loc.ret.History
  /\ Len(History) >= 2
  /\ InputTokens = loc.ret.PromptTokens
  /\ InputTokens > 0

\* the user messages this run persisted, in the order of their Enter
UserRows ==
  SelectSeq(db.rows, LAMBDA row : row.role = "user" /\ \E i \in UserInputs : row.content = <<W(i)>>)

\* the chat into which the user message of the turn in loc was persisted
TurnChat == UserRows[turns].chat

\* C33: every assistant message is persisted into the same chat into which the
\* user message of its turn was persisted: for any interleaving of key events
\* with an in-flight turn, PersistAssistantMessage never inserts a reply into a
\* chat other than the one current when the turn started.
C33_ReplyPersistedInTurnsChat ==
  [][(TakesResponse /\ db' # db) => Last(db'.rows).chat = TurnChat]_vars

\* the reply of a turn started in a new chat is the last row of the chat of
\* the earlier run, which was loaded while the turn was in flight
C33_ReplyInLoadedChat ==
  /\ turns = 1
  /\ pc = "idle"
  /\ inbox = <<>>
  /\ loc.ret.type = "ResponseMsg"
  /\ TurnChat = 2
  /\ CurrentChatID = 1
  /\ Last(db.rows) = [chat |-> 1, role |-> "assistant", content |-> loc.ret.Content]
  /\ ~\E i \in 1..Len(db.rows) : db.rows[i].chat = 2 /\ db.rows[i].role = "assistant"

\* Enter is accepted: a turn starts
TurnStarts == ~Loading /\ Loading'

\* C34: the tool actions displayed with a response are exactly the tool calls
\* executed in that response's turn, in execution order: ToolActions is empty
\* whenever a new turn starts, also after a turn that executed tools and then
\* ended with an error, and ExecutingTool is empty whenever no tool is running.
C34_NoActionsWhenTurnStarts ==
  [][TurnStarts => (ToolActions = <<>> /\ ExecutingTool = "")]_vars

\* the second turn has started after a turn that ran a tool and ended with an
\* error; the actions of the first turn are still in ToolActions
C34_ActionsOfFailedTurnKept ==
  /\ turns = 2
  /\ pc = "build"
  /\ Loading
  /\ Err # ""
  /\ ~obs.reset
  /\ ToolActions # <<>>
  /\ ExecutingTool = ""

\* the summary of a result that counts n items
Counts(n) ==
  CASE call.fn = "ToolGlob" ->
         "GLOB " \o Str(call.args, "pat") \o " (" \o ToString(n) \o " files)"
    [] call.fn = "ToolGrep" ->
         "GREP \"" \o Str(call.args, "pat") \o "\" (" \o ToString(n) \o " matches)"
    [] call.fn = "ToolLs" -> "LS " \o Root \o " (" \o ToString(n) \o " entries)"
    [] call.fn = "ToolRead" ->
         "READ " \o Base(Str(call.args, "path")) \o " (" \o ToString(n) \o " lines)"

\* the items of the raw result: the paths of a glob result, the hit lines of a
\* grep result, the entries of a listing, the file lines a read returned
Items ==
  LET res == returned.r.res
  IN CASE call.fn = "ToolGlob" ->
            Cardinality({i \in 1..Len(res) :
                           \E p \in DOMAIN call.fs \cup {"."} : res[i] = W(p)})
       [] call.fn = "ToolGrep" ->
            Cardinality(UNION {HitsIn(res, p, call.fs[p]) : p \in DOMAIN call.fs})
       [] call.fn = "ToolLs" ->
            Cardinality({i \in 1..Len(res) : res[i] = W("[FILE]")})
       [] call.fn = "ToolRead" -> Len(Numbered(res))

\* C35: the count in a tool summary equals the number of items in the raw
\* result: for a glob or grep result with k >= 0 matches the summary reports k
\* files/matches, for read it reports the number of file lines returned, and
\* for ls the number of entries.
C35_SummaryCountsItems ==
  (/\ call.fn \in {"ToolGlob", "ToolGrep", "ToolLs", "ToolRead"}
   /\ returned.done
   /\ ~returned.r.isErr) => returned.summary = Counts(Items)

\* a glob result of two paths is summarised as one file
C35_TwoFilesCountedAsOne ==
  /\ call.fn = "ToolGlob"
  /\ returned.done
  /\ Items = 2
  /\ returned.summary = Counts(1)

\* the response of the latest call carries structured tool calls and a content
\* that is an inline tool call
AsksBothWays == loc.choice.tool_calls # <<>> /\ loc.inline.ok

\* C36: when a response carries a non-empty structured tool-call list and a
\* content that matches the inline tool-call pattern, only the structured calls
\* are executed: the loop never takes the inline path for that response, the
\* executions of the round are the structured calls in their order, and the
\* round ends when the last of them is reported.
C36_OnlyStructuredCallsRun ==
  AsksBothWays =>
    /\ pc \notin {"inlinestart", "inlineexec", "inlinedone"}
    /\ Len(ExecEvents) <= Len(loc.choice.tool_calls)
    /\ \A i \in 1..Len(ExecEvents) :
         /\ ExecEvents[i].idx = i
         /\ ExecEvents[i].name = loc.choice.tool_calls[i].name
    /\ (pc = "loop" /\ obs.round # <<>>) =>
         /\ Len(ExecEvents) = Len(loc.choice.tool_calls)
         /\ Last(loc.toolExecs).Name = Last(loc.choice.tool_calls).name
         /\ Last(loc.history).role = "tool"

\* the glob and grep calls of a response whose content is ls{} have run, and
\* the loop is about to call the endpoint again
C36_StructuredRoundDone ==
  /\ AsksBothWays
  /\ pc = "loop"
  /\ loc.inline.name = "ls"
  /\ [i \in 1..Len(ExecEvents) |-> ExecEvents[i].name] = <<"glob", "grep">>
  /\ [i \in 1..Len(loc.toolExecs) |-> loc.toolExecs[i].Name] = <<"glob", "grep">>

\* the text the loop hands to CoerceAgentFinalContent when it returns
FinalText(l) ==
  IF AtCeiling(l.iteration) THEN CeilingContent(l.choice) ELSE l.choice.content

\* C37: the text an agent turn returns is CoerceAgentFinalContent of the final
\* text and the tool records of that turn alone: the loop starts without
\* records, records are added one by one by the executions of the turn, and
\* when the loop returns, the content is the final text unchanged if the turn
\* ran no ls (also when the text is empty or an inline tool call), and is the
\* final text or the answer formatted from the most recent ls record otherwise.
C37_CoercionSeesOnlyTheTurn ==
  [][/\ (pc = "mode" /\ pc' = "loop") => loc'.toolExecs = <<>>
     /\ (loc'.toolExecs # loc.toolExecs /\ pc' # "build") =>
          /\ pc \in {"toolexec", "inlineexec"}
          /\ turns' = turns
          /\ loc'.toolExecs = Append(loc.toolExecs, Last(loc'.toolExecs))
     /\ (Returning' /\ ~Returning /\ AgentTurn') =>
          LET ls == LsRecords(loc'.toolExecs)
          IN /\ loc'.ret.Content = CoerceAgentFinalContent(FinalText(loc'), loc'.toolExecs)
             /\ ls = <<>> => loc'.ret.Content = FinalText(loc')
             /\ ls # <<>> =>
                  loc'.ret.Content \in {FinalText(loc'),
                                        FormatLsResultAsAnswer(Last(ls).Result)}
    ]_vars

\* the second turn ran no tool and returns its empty final text as it is,
\* although the turn before listed a.txt with ls
C37_EarlierLsIgnored ==
  /\ turns = 2
  /\ Returning
  /\ AgentTurn
  /\ loc.toolExecs = <<>>
  /\ FinalText(loc) = <<>>
  /\ loc.ret.Content = <<>>
  /\ \E i \in 1..Len(obs.before) :
       /\ obs.before[i].role = "tool"
       /\ obs.before[i].content = <<W("[FILE]"), SP, W("a.txt"), NL>>

\* the endpoint answers the call of iteration MaxToolIterations with a choice
CeilingResponse ==
  /\ pc = "loop"
  /\ loc.iteration = MaxToolIterations - 1
  /\ loc'.iteration = MaxToolIterations
  /\ remote'.last.kind = "choice"

C39_OneModalIndexesInRange ==
  /\ ~(HistoryOpen /\ ModelSelectorOpen)
  /\ ~(HistoryOpen /\ ShortcutsOpen)
  /\ ~(ModelSelectorOpen /\ ShortcutsOpen)
  /\ SelectedModelIndex \in 0..(Len(AvailableModels) - 1)
  /\ HistoryChats # <<>> => HistorySelectedIdx \in 0..(Len(HistoryChats) - 1)

\* the selector's cursor was moved up from the first model to the last, the
\* selector was left, and the history modal is open on its two chats
C39_HistoryOpenAfterSelectorWrap ==
  /\ HistoryOpen
  /\ ~ModelSelectorOpen
  /\ ~ShortcutsOpen
  /\ SelectedModelIndex = Len(AvailableModels) - 1
  /\ Len(HistoryChats) = 2
  /\ HistorySelectedIdx = 0
====
